---- MODULE Spec2Model ----
(***************************************************************************)
(* A model of the references view (vscode-references-view): the folder     *)
(* grouping result model (src/src/model.ts, ModelImpl), the flat result    *)
(* models (ReferencesModel / LocationsModel), the symbols tree and the     *)
(* session controllers of the successive versions of the extension.        *)
(*                                                                         *)
(* Strings are sequences of one-character strings, so that split,          *)
(* startsWith, substring and the comparison of strings are computed as     *)
(* the code computes them.                                                 *)
(***************************************************************************)
EXTENDS Integers, Sequences, FiniteSets, TLC

\* ------------------------------------------------------------------ bounds

\* The largest number of locations a provider call hands to a result model.
MaxLocs == 4

\* ----------------------------------------------------------------- strings

\* UTF-16 code units of the characters the model uses (String comparison
\* in JavaScript compares code units).
CharCode(c) ==
    CASE c = "#" -> 35
      [] c = "/" -> 47
      [] c = "0" -> 48
      [] c = "1" -> 49
      [] c = "2" -> 50
      [] c = "3" -> 51
      [] c = "4" -> 52
      [] c = "5" -> 53
      [] c = "6" -> 54
      [] c = "7" -> 55
      [] c = "8" -> 56
      [] c = "9" -> 57
      [] c = ":" -> 58
      [] c = "a" -> 97
      [] c = "b" -> 98
      [] c = "c" -> 99
      [] c = "d" -> 100
      [] c = "e" -> 101
      [] c = "f" -> 102
      [] c = "g" -> 103
      [] c = "i" -> 105
      [] c = "l" -> 108
      [] c = "r" -> 114
      [] c = "x" -> 120

\* a < b on strings.
RECURSIVE StrLess(_, _)
StrLess(a, b) ==
    IF b = <<>> THEN FALSE
    ELSE IF a = <<>> THEN TRUE
    ELSE IF CharCode(Head(a)) < CharCode(Head(b)) THEN TRUE
    ELSE IF CharCode(Head(a)) > CharCode(Head(b)) THEN FALSE
    ELSE StrLess(Tail(a), Tail(b))

\* String.prototype.startsWith
StartsWith(s, p) == Len(p) <= Len(s) /\ SubSeq(s, 1, Len(p)) = p

\* String.prototype.substring(from) (from is 0-based)
Substring(s, from) == SubSeq(s, from + 1, Len(s))

\* String.prototype.split('/'): the pieces between the separators.
RECURSIVE SplitFrom(_, _)
SplitFrom(s, cur) ==
    IF s = <<>> THEN <<cur>>
    ELSE IF Head(s) = "/" THEN <<cur>> \o SplitFrom(Tail(s), <<>>)
    ELSE SplitFrom(Tail(s), Append(cur, Head(s)))

Split(s) == SplitFrom(s, <<>>)

\* Array.prototype.slice(start, end) with its treatment of negative and
\* out of range indices (0-based, end exclusive).
Slice(arr, start, end) ==
    LET n == Len(arr)
        norm(k) == IF k < 0 THEN (IF n + k < 0 THEN 0 ELSE n + k)
                   ELSE (IF k > n THEN n ELSE k)
    IN  SubSeq(arr, norm(start) + 1, norm(end))

\* Array.prototype.indexOf, 1-based; 0 stands for -1.
IndexOf(arr, x) ==
    IF \E i \in 1..Len(arr) : arr[i] = x
    THEN CHOOSE i \in 1..Len(arr) : arr[i] = x /\ \A j \in 1..(i - 1) : arr[j] # x
    ELSE 0

\* Array.prototype.splice(index, 1) at a 1-based index.
RemoveAt(arr, i) == SubSeq(arr, 1, i - 1) \o SubSeq(arr, i + 1, Len(arr))

\* ------------------------------------------------------- uris and positions

Scheme == <<"f", "i", "l", "e", ":", "/", "/">>

\* vscode.Uri.toString(): scheme, path and, when there is one, '#' fragment.
UriToString(u) ==
    Scheme \o u.path \o (IF u.fragment = <<>> THEN <<>> ELSE <<"#">> \o u.fragment)

FileUri(p) == [path |-> p, fragment |-> <<>>]

Pos(l, c) == [line |-> l, character |-> c]

\* vscode.Position.isBefore / isAfter
IsBefore(p, q) == p.line < q.line \/ (p.line = q.line /\ p.character < q.character)
IsAfter(p, q) == IsBefore(q, p)

Loc(u, s, e) == [uri |-> u, range |-> [start |-> s, end |-> e]]

\* ModelImpl._compareLocations (and, with the same body,
\* ReferencesModel._compareLocations and LocationsModel._compareLocations):
\* by the whole uri string, then by the start of the range.
CompareLocations(a, b) ==
    IF StrLess(UriToString(a.uri), UriToString(b.uri)) THEN -1
    ELSE IF StrLess(UriToString(b.uri), UriToString(a.uri)) THEN 1
    ELSE IF IsBefore(a.range.start, b.range.start) THEN -1
    ELSE IF IsAfter(a.range.start, b.range.start) THEN 1
    ELSE 0

\* locations.sort(_compareLocations): a stable sort (Array.prototype.sort is
\* stable), computed as an insertion sort from the left.
RECURSIVE InsertSorted(_, _)
InsertSorted(sorted, x) ==
    IF sorted = <<>> THEN <<x>>
    ELSE IF CompareLocations(x, Head(sorted)) < 0 THEN <<x>> \o sorted
    ELSE <<Head(sorted)>> \o InsertSorted(Tail(sorted), x)

RECURSIVE SortLocations(_)
SortLocations(arr) ==
    IF arr = <<>> THEN <<>>
    ELSE InsertSorted(SortLocations(SubSeq(arr, 1, Len(arr) - 1)), arr[Len(arr)])

\* ------------------------------------------- ModelImpl (src/src/model.ts)

\* `undefined` for a parent link, and the id of the root folder, which the
\* constructor creates first.
Undef == 0
RootId == 1

\* The objects of one ModelImpl.  Folders, files and references are numbered
\* in the order they are created:
\*   fname, fparent, ffolders, ffiles   FolderItemImpl._name, _parent, _folders, _files
\*   iuri, iparent, irefs               FileItemImpl.uri, _parent, _references
\*   rloc, rparent                      ReferenceItemImpl.location, _parent
\*   fired                              the items _onDidChange fired in the last call
\*   threw                              whether the last call threw
EmptyHeap ==
    [fname |-> <<<<>>>>, fparent |-> <<Undef>>, ffolders |-> << <<>> >>, ffiles |-> << <<>> >>,
     iuri |-> <<>>, iparent |-> <<>>, irefs |-> <<>>,
     rloc |-> <<>>, rparent |-> <<>>,
     fired |-> <<>>, threw |-> FALSE]

Folders(h) == 1..Len(h.fname)
Files(h) == 1..Len(h.iuri)
Refs(h) == 1..Len(h.rloc)

Last(arr) == arr[Len(arr)]

Throw(h) == [h EXCEPT !.threw = TRUE]

Fire(h, kind, id) == [h EXCEPT !.fired = Append(@, <<kind, id>>)]

\* new FolderItemImpl(name) followed by parent.addFolder(result).  The new
\* folder is detached, so addFolder's 'already attached' check passes.
AddNewFolder(h, name, parent) ==
    LET id == Len(h.fname) + 1
    IN  [h EXCEPT !.fname = Append(@, name),
                  !.fparent = Append(@, parent),
                  !.ffolders = [Append(@, <<>>) EXCEPT ![parent] = Append(@, id)],
                  !.ffiles = Append(@, <<>>)]

\* new FileItemImpl(uri) followed by folder.addFile(last).
AddNewFile(h, uri, folder) ==
    LET id == Len(h.iuri) + 1
    IN  [h EXCEPT !.iuri = Append(@, uri),
                  !.iparent = Append(@, folder),
                  !.irefs = Append(@, <<>>),
                  !.ffiles = [@ EXCEPT ![folder] = Append(@, id)]]

\* last.addRef(new ReferenceItemImpl(loc))
AddNewRef(h, loc, file) ==
    LET id == Len(h.rloc) + 1
    IN  [h EXCEPT !.rloc = Append(@, loc),
                  !.rparent = Append(@, file),
                  !.irefs = [@ EXCEPT ![file] = Append(@, id)]]

\* ModelImpl._getOrCreate: the folder at `path` below `parent`, created where
\* it does not exist.  The result is <<heap, folder>>.
RECURSIVE GetOrCreate(_, _, _)
GetOrCreate(h, path, parent) ==
    IF path = <<>> THEN <<h, parent>>
    ELSE LET first == Head(path)
             kids == h.ffolders[parent]
             hits == {i \in 1..Len(kids) : h.fname[kids[i]] = first}
         IN  IF hits # {}
             THEN GetOrCreate(h, Tail(path),
                              kids[CHOOSE i \in hits : \A j \in hits : i <= j])
             ELSE GetOrCreate(AddNewFolder(h, first, parent), Tail(path),
                              Len(h.fname) + 1)

\* The `undefined` result of _getContainerComponents; a defined result is
\* <<TRUE, the names>>.
NoComponents == <<FALSE, <<>>>>

\* ModelImpl._getContainerComponents: the names of the folders of `uri`
\* below the first workspace root whose path is a prefix of the uri's path.
RECURSIVE GetContainerComponentsFrom(_, _, _)
GetContainerComponentsFrom(rootUris, uri, k) ==
    IF k > Len(rootUris) THEN NoComponents
    ELSE LET folderUri == rootUris[k]
             pathParts == Split(folderUri.path)
             name == pathParts[Len(pathParts)]
         IN  IF StartsWith(uri.path, folderUri.path)
             THEN LET truncatedPath == Substring(uri.path, Len(folderUri.path))
                      parts == Split(truncatedPath)
                      result == Slice(parts, 1, Len(parts) - 2)
                  IN  IF Len(rootUris) = 1 THEN <<TRUE, result>>
                      ELSE <<TRUE, <<name>> \o result>>
             ELSE GetContainerComponentsFrom(rootUris, uri, k + 1)

GetContainerComponents(rootUris, uri) == GetContainerComponentsFrom(rootUris, uri, 1)

\* A compactFolder that leaves the parent link of the subfolder as it was.
CompactFolderKeepsParent(h, folder) ==
    IF folder = RootId THEN <<h, Undef>>
    ELSE IF Len(h.ffiles[folder]) = 0 /\ Len(h.ffolders[folder]) = 1
    THEN LET replaceWith == h.ffolders[folder][1]
             parent == h.fparent[folder]
             h1 == [h EXCEPT !.fname[replaceWith] = h.fname[folder] \o <<"/">> \o @]
         IN  IF parent = Undef THEN <<Throw(h1), Undef>>
             ELSE LET index == IndexOf(h1.ffolders[parent], folder)
                  IN  IF index = 0 THEN <<h1, replaceWith>>
                      ELSE <<[h1 EXCEPT !.ffolders[parent][index] = replaceWith],
                             replaceWith>>
    ELSE <<h, Undef>>

\* ModelImpl.compactFolder: a folder other than the root with no files and
\* one subfolder is replaced, in its parent's list, by that subfolder, whose
\* name is prefixed.  The result is <<heap, the replacing folder or Undef>>.
CompactFolder(h, folder) ==
    IF folder = RootId THEN <<h, Undef>>
    ELSE IF Len(h.ffiles[folder]) = 0 /\ Len(h.ffolders[folder]) = 1
    THEN LET replaceWith == h.ffolders[folder][1]
             parent == h.fparent[folder]
             h1 == [h EXCEPT !.fname[replaceWith] = h.fname[folder] \o <<"/">> \o @,
                             !.fparent[replaceWith] = parent]
         IN  IF parent = Undef THEN <<Throw(h1), Undef>>
             ELSE LET index == IndexOf(h1.ffolders[parent], folder)
                  IN  IF index = 0 THEN <<h1, replaceWith>>
                      ELSE <<[h1 EXCEPT !.ffolders[parent][index] = replaceWith],
                             replaceWith>>
    ELSE <<h, Undef>>

\* The while loop of compactTree: compactFolder until it returns undefined.
\* The result is <<heap, current, compacted>>.
RECURSIVE CompactChain(_, _, _)
CompactChain(h, current, compacted) ==
    LET r == CompactFolder(h, current)
    IN  IF r[1].threw THEN <<r[1], current, compacted>>
        ELSE IF r[2] = Undef THEN <<h, current, compacted>>
        ELSE CompactChain(r[1], r[2], TRUE)

\* ModelImpl.compactTree; its for loop over current._folders is
\* CompactChildren.  `compacted || this.compactTree(child)` does not call
\* compactTree once compacted is true.  The result is <<heap, compacted>>.
RECURSIVE CompactTree(_, _)
RECURSIVE CompactChildren(_, _, _, _)
CompactChildren(h, current, i, compacted) ==
    IF h.threw \/ i > Len(h.ffolders[current]) THEN <<h, compacted>>
    ELSE IF compacted THEN CompactChildren(h, current, i + 1, compacted)
    ELSE LET r == CompactTree(h, h.ffolders[current][i])
         IN  CompactChildren(r[1], current, i + 1, r[2])

CompactTree(h, folder) ==
    LET c == CompactChain(h, folder, FALSE)
    IN  CompactChildren(c[1], c[2], 1, c[3])

\* The loop body of the constructor for one location: `st` is
\* <<heap, last>>, last the file of the previous location or Undef.
ConstructStep(st, loc, configuration) ==
    LET h == st[1]
        last == st[2]
    IN  IF last = Undef \/ UriToString(h.iuri[last]) # UriToString(loc.uri)
        THEN IF configuration.showFolders
             THEN LET pathParts == GetContainerComponents(configuration.rootUris, loc.uri)
                  IN  IF pathParts = NoComponents THEN st
                      ELSE LET g == GetOrCreate(h, pathParts[2], RootId)
                               h1 == AddNewFile(g[1], loc.uri, g[2])
                           IN  <<AddNewRef(h1, loc, Len(h1.iuri)), Len(h1.iuri)>>
             ELSE LET h1 == AddNewFile(h, loc.uri, RootId)
                  IN  <<AddNewRef(h1, loc, Len(h1.iuri)), Len(h1.iuri)>>
        ELSE <<AddNewRef(h, loc, last), last>>

RECURSIVE ConstructLoop(_, _, _)
ConstructLoop(st, locations, configuration) ==
    IF locations = <<>> THEN st
    ELSE ConstructLoop(ConstructStep(st, Head(locations), configuration),
                       Tail(locations), configuration)

\* new ModelImpl(uri, position, locations, configuration)
NewModelImpl(locations, configuration) ==
    LET built == ConstructLoop(<<EmptyHeap, Undef>>, SortLocations(locations), configuration)
    IN  CompactTree(built[1], RootId)[1]

\* _del(ts, t) of FolderItemImpl.delete, FileItemImpl.delete and
\* ReferenceItemImpl.delete: each throws on a detached item and when the
\* item is not in its parent's array, and clears the parent link last.
FolderDelete(h, folder) ==
    LET parent == h.fparent[folder]
    IN  IF parent = Undef THEN Throw(h)
        ELSE LET index == IndexOf(h.ffolders[parent], folder)
             IN  IF index = 0 THEN Throw(h)
                 ELSE [h EXCEPT !.ffolders[parent] = RemoveAt(@, index),
                                !.fparent[folder] = Undef]

FileDelete(h, file) ==
    LET parent == h.iparent[file]
    IN  IF parent = Undef THEN Throw(h)
        ELSE LET index == IndexOf(h.ffiles[parent], file)
             IN  IF index = 0 THEN Throw(h)
                 ELSE [h EXCEPT !.ffiles[parent] = RemoveAt(@, index),
                                !.iparent[file] = Undef]

RefDelete(h, ref) ==
    LET parent == h.rparent[ref]
    IN  IF parent = Undef THEN Throw(h)
        ELSE LET index == IndexOf(h.irefs[parent], ref)
             IN  IF index = 0 THEN Throw(h)
                 ELSE [h EXCEPT !.irefs[parent] = RemoveAt(@, index),
                                !.rparent[ref] = Undef]

\* FolderItemImpl.isEmpty (a getter)
FolderIsEmpty(h, folder) == Len(h.ffolders[folder]) = 0 /\ Len(h.ffiles[folder]) = 0

\* FileItemImpl.isEmpty() (a method)
FileIsEmpty(h, file) == Len(h.irefs[file]) = 0

\* The condition `file.isEmpty` of cleanupFile.  isEmpty is a method of
\* FileItemImpl and cleanupFile does not call it: the condition is the
\* function object, which is truthy whatever the file holds.
CleanupFileCondition(h, file) == TRUE

\* ModelImpl.cleanupFolder, with the deleteFileOrFolder it calls on an empty
\* folder (which calls cleanupFolder on the parent in turn).
RECURSIVE CleanupFolder(_, _)
CleanupFolder(h, folder) ==
    IF folder = Undef THEN h
    ELSE LET h1 == Fire(h, "folder", folder)
         IN  IF FolderIsEmpty(h1, folder) /\ folder # RootId
             THEN LET parent == h1.fparent[folder]
                      h2 == FolderDelete(h1, folder)
                  IN  IF h2.threw THEN h2 ELSE CleanupFolder(h2, parent)
             ELSE LET c == CompactTree(h1, RootId)
                  IN  IF c[1].threw THEN c[1]
                      ELSE IF c[2] THEN Fire(c[1], "folder", folder)
                      ELSE c[1]

\* ModelImpl.deleteFileOrFolder
DeleteFileOrFolder(h, kind, item) ==
    LET parent == IF kind = "file" THEN h.iparent[item] ELSE h.fparent[item]
        h1 == IF kind = "file" THEN FileDelete(h, item) ELSE FolderDelete(h, item)
    IN  IF h1.threw THEN h1 ELSE CleanupFolder(h1, parent)

\* ModelImpl.cleanupFile
CleanupFile(h, file) ==
    IF file = Undef THEN h
    ELSE LET h1 == Fire(h, "file", file)
         IN  IF CleanupFileCondition(h1, file)
             THEN DeleteFileOrFolder(h1, "file", file)
             ELSE h1

\* ModelImpl.remove(item); `kind` is item.kind.
RemoveItem(h0, kind, item) ==
    LET h == [h0 EXCEPT !.fired = <<>>, !.threw = FALSE]
    IN  IF kind = "reference"
        THEN LET parent == h.rparent[item]
                 h1 == RefDelete(h, item)
             IN  IF h1.threw THEN h1 ELSE CleanupFile(h1, parent)
        ELSE DeleteFileOrFolder(h, kind, item)

\* ------------------------------------------------ ModelImpl: state machine

VARIABLES
    heap,           \* the objects of the ModelImpl under test
    configuration,  \* its ModelConfiguration
    supplied,       \* the locations its constructor was given
    lastOp          \* the last call on it, with the heap it was made on

modelVars == <<heap, configuration, supplied, lastOp>>

\* The path '/s1/s2/...' of one-character segments.
RECURSIVE PathOf(_)
PathOf(segs) ==
    IF segs = <<>> THEN <<>> ELSE <<"/", Head(segs)>> \o PathOf(Tail(segs))

\* The locations providers return in the model: files at several depths
\* below the workspace root /r, two of them with two references, and a file
\* outside of it.
LocUniverse ==
    << Loc(FileUri(PathOf(<<"x", "f">>)), Pos(0, 0), Pos(0, 1)),
       Loc(FileUri(PathOf(<<"r", "e", "g", "b", "f">>)), Pos(0, 0), Pos(0, 1)),
       Loc(FileUri(PathOf(<<"r", "e", "b", "f">>)), Pos(0, 0), Pos(0, 1)),
       Loc(FileUri(PathOf(<<"r", "c", "d", "e", "f">>)), Pos(0, 0), Pos(0, 1)),
       Loc(FileUri(PathOf(<<"r", "a", "b", "c", "g">>)), Pos(0, 0), Pos(0, 1)),
       Loc(FileUri(PathOf(<<"r", "a", "b", "c", "f">>)), Pos(1, 0), Pos(1, 1)),
       Loc(FileUri(PathOf(<<"r", "a", "b", "c", "f">>)), Pos(0, 0), Pos(0, 1)),
       Loc(FileUri(PathOf(<<"r", "f">>)), Pos(0, 0), Pos(0, 1)) >>

\* The lists of locations a provider call returns: at most MaxLocs locations
\* of LocUniverse, in the order of LocUniverse (which is not the sorted one).
RECURSIVE Pick(_, _)
Pick(idx, k) ==
    IF k > Len(LocUniverse) THEN <<>>
    ELSE IF k \in idx THEN <<LocUniverse[k]>> \o Pick(idx, k + 1)
    ELSE Pick(idx, k + 1)

LocationLists ==
    {Pick(idx, 1) : idx \in {x \in SUBSET (1..Len(LocUniverse)) : Cardinality(x) <= MaxLocs}}

\* getDefaultConfiguration(): the workspace folders and references.treeView.
Configurations ==
    { [rootUris |-> <<FileUri(PathOf(<<"r">>))>>, showFolders |-> FALSE],
      [rootUris |-> <<FileUri(PathOf(<<"r">>))>>, showFolders |-> TRUE],
      [rootUris |-> <<FileUri(PathOf(<<"r">>)), FileUri(PathOf(<<"x">>))>>, showFolders |-> TRUE] }

ModelInit ==
    /\ supplied \in LocationLists
    /\ configuration \in Configurations
    /\ heap = NewModelImpl(supplied, configuration)
    /\ lastOp = [op |-> "new", kind |-> "model", item |-> Undef, pre |-> EmptyHeap]

\* The items reachable from the root: what the tree view shows.
RECURSIVE FoldersBelow(_, _)
FoldersBelow(h, d) ==
    {d} \cup UNION {FoldersBelow(h, h.ffolders[d][i]) : i \in 1..Len(h.ffolders[d])}

LiveFolders(h) == FoldersBelow(h, RootId)
LiveFiles(h) == UNION {{h.ffiles[d][i] : i \in 1..Len(h.ffiles[d])} : d \in LiveFolders(h)}
LiveRefs(h) == UNION {{h.irefs[f][i] : i \in 1..Len(h.irefs[f])} : f \in LiveFiles(h)}

\* model.remove(item), the 'references-view.remove' command on an item of
\* the tree view.
Remove(kind, item) ==
    /\ heap' = RemoveItem(heap, kind, item)
    /\ lastOp' = [op |-> "remove", kind |-> kind, item |-> item, pre |-> heap]
    /\ UNCHANGED <<configuration, supplied>>

RemoveReference == \E r \in LiveRefs(heap) : Remove("reference", r)
RemoveFile == \E f \in LiveFiles(heap) : Remove("file", f)
RemoveFolder == \E d \in LiveFolders(heap) \ {RootId} : Remove("folder", d)

\* Whether the item is reachable from the root.
IsLive(h, kind, item) ==
    item \in (IF kind = "reference" THEN LiveRefs(h)
              ELSE IF kind = "file" THEN LiveFiles(h) ELSE LiveFolders(h))

\* model.remove(item) with an item a caller kept (a selection, the argument
\* of a queued command) that is not in the tree any more: removed before, or
\* a folder merged away by compaction.
RemoveDetached ==
    \/ \E r \in Refs(heap) \ LiveRefs(heap) : Remove("reference", r)
    \/ \E f \in Files(heap) \ LiveFiles(heap) : Remove("file", f)
    \/ \E d \in Folders(heap) \ LiveFolders(heap) : Remove("folder", d)

\* ------------------------------------------------------ ModelImpl: claims

\* A folder that compaction has to merge: no files and exactly one subfolder.
SingleChild(h, d) == Len(h.ffiles[d]) = 0 /\ Len(h.ffolders[d]) = 1

\* C1: in folder-grouping mode, after construction and after any sequence of
\* remove() calls on live nodes, no live folder other than the root has zero
\* files and exactly one child folder.
C1_Compacted ==
    configuration.showFolders =>
        \A d \in LiveFolders(heap) \ {RootId} : ~SingleChild(heap, d)

\* What a remove() call is compared with: the heap it was called on.
Pre == lastOp.pre
Removed == lastOp.op = "remove" /\ ~heap.threw

\* delete() clears the parent link of the item it detaches; a folder merged
\* away by compaction keeps its link.
FolderDeleted(d) == Pre.fparent[d] # Undef /\ heap.fparent[d] = Undef
FileDeleted(f) == Pre.iparent[f] # Undef /\ heap.iparent[f] = Undef

\* C2: remove(ref) on a reference whose file holds at least two references
\* removes only that reference: the file stays attached with its other
\* references in their original order; the file is deleted only when the
\* removed reference was its last one.
C2_RemoveOnlyTheReference ==
    (Removed /\ lastOp.kind = "reference") =>
        LET r == lastOp.item
            f == Pre.rparent[r]
        IN  /\ Len(Pre.irefs[f]) >= 2 =>
                /\ f \in LiveFiles(heap)
                /\ heap.irefs[f] = RemoveAt(Pre.irefs[f], IndexOf(Pre.irefs[f], r))
            /\ f \notin LiveFiles(heap) => Pre.irefs[f] = <<r>>

\* The folders from d up to the root.
RECURSIVE FolderChain(_, _)
FolderChain(h, d) == IF d = Undef THEN {} ELSE {d} \cup FolderChain(h, h.fparent[d])

\* The ancestors of the removed item in the heap remove() was called on.
AncestorFile == IF lastOp.kind = "reference" THEN {Pre.rparent[lastOp.item]} ELSE {}
AncestorFolders ==
    CASE lastOp.kind = "reference" -> FolderChain(Pre, Pre.iparent[Pre.rparent[lastOp.item]])
      [] lastOp.kind = "file" -> FolderChain(Pre, Pre.iparent[lastOp.item])
      [] lastOp.kind = "folder" -> FolderChain(Pre, Pre.fparent[lastOp.item])

NoEmptyLive(h) ==
    /\ \A f \in LiveFiles(h) : Len(h.irefs[f]) >= 1
    /\ \A d \in LiveFolders(h) \ {RootId} : ~FolderIsEmpty(h, d)

\* C3: after any remove() call returns, every live file has at least one
\* reference and every live folder other than the root has a file or a
\* subfolder: the ancestors the removal emptied are deleted within that call
\* and the deletion stops at the first ancestor that is not empty, or at the
\* root (an ancestor is deleted exactly when the removal left it empty).
C3_CascadeStopsAtNonEmpty ==
    Removed =>
        /\ NoEmptyLive(heap)
        /\ \A f \in AncestorFile : FileDeleted(f) <=> FileIsEmpty(heap, f)
        /\ \A d \in AncestorFolders \ {RootId} : FolderDeleted(d) <=> FolderIsEmpty(heap, d)
        /\ heap.fparent[RootId] = Undef /\ RootId \in LiveFolders(heap)

\* Array.prototype.join('/')
RECURSIVE JoinSlash(_)
JoinSlash(names) ==
    IF names = <<>> THEN <<>>
    ELSE IF Len(names) = 1 THEN names[1]
    ELSE names[1] \o <<"/">> \o JoinSlash(Tail(names))

\* The names of the folders from below the root down to d, as one path.
RECURSIVE FolderPathName(_, _)
FolderPathName(h, d) ==
    IF d = RootId \/ d = Undef THEN <<>>
    ELSE IF h.fparent[d] = RootId \/ h.fparent[d] = Undef THEN h.fname[d]
    ELSE FolderPathName(h, h.fparent[d]) \o <<"/">> \o h.fname[d]

\* The directory 's1/.../sn' of the file <root>/s1/.../sn/<name>.
DirectoryBelow(root, uri) ==
    LET parts == Split(Substring(uri.path, Len(root.path)))
    IN  JoinSlash(SubSeq(parts, 2, Len(parts) - 1))

UnderRoot(root, uri) ==
    StartsWith(uri.path, root.path \o <<"/">>)

\* C5: in folder-grouping mode with a single workspace root, a file at
\* <root>/s1/.../sn/<name> is placed under the folder chain s1..sn; hence
\* when all files are in the same directory s1/.../sn (n >= 1) there is one
\* top-level folder, named 's1/.../sn', that contains them all.
C5_FolderChainOfFile ==
    (lastOp.op = "new" /\ configuration.showFolders /\ Len(configuration.rootUris) = 1) =>
        LET root == configuration.rootUris[1]
            inRoot == {i \in 1..Len(supplied) : UnderRoot(root, supplied[i].uri)}
            dirs == {DirectoryBelow(root, supplied[i].uri) : i \in inRoot}
        IN  /\ \A i \in inRoot : \E f \in LiveFiles(heap) : heap.iuri[f] = supplied[i].uri
            /\ \A f \in LiveFiles(heap) :
                   FolderPathName(heap, heap.iparent[f]) = DirectoryBelow(root, heap.iuri[f])
            /\ (Cardinality(dirs) = 1 /\ dirs # {<<>>}) =>
                   /\ heap.ffiles[RootId] = <<>>
                   /\ Len(heap.ffolders[RootId]) = 1
                   /\ {heap.fname[heap.ffolders[RootId][1]]} = dirs
                   /\ LiveFiles(heap) =
                          {heap.ffiles[heap.ffolders[RootId][1]][i] :
                               i \in 1..Len(heap.ffiles[heap.ffolders[RootId][1]])}

\* The folder at which the deletions of the last remove() stopped: the
\* parent of the topmost item it detached.
StopFolders ==
    {d \in Folders(Pre) :
        /\ ~FolderDeleted(d)
        /\ \/ \E k \in Folders(Pre) : FolderDeleted(k) /\ Pre.fparent[k] = d
           \/ \E f \in Files(Pre) : FileDeleted(f) /\ Pre.iparent[f] = d}

\* The top of the chain of single-child folders that ends in d.
RECURSIVE ChainTop(_, _)
ChainTop(h, d) ==
    LET p == h.fparent[d]
    IN  IF p # Undef /\ p # RootId /\ SingleChild(h, p) THEN ChainTop(h, p) ELSE d

\* The chain of single-child folders from d down to the first folder that
\* is not one (a folder merged away keeps its own _folders array).
RECURSIVE ChainDown(_, _)
ChainDown(h, d) ==
    IF SingleChild(h, d) THEN <<d>> \o ChainDown(h, h.ffolders[d][1]) ELSE <<d>>

\* The folders from `top` down to d, d below top.
RECURSIVE ChainUp(_, _, _)
ChainUp(h, top, d) ==
    IF d = top THEN <<d>> ELSE ChainUp(h, top, h.fparent[d]) \o <<d>>

\* C6: when a remove() call leaves a live non-root folder with zero files and
\* exactly one subfolder, that folder is merged with its single-child
\* subfolder chain within the same call: the surviving folder takes the
\* merged folder's position in the parent's folder list, its parent link
\* points to that parent, and its name is the '/'-join of the merged
\* folders' names from top to bottom.
C6_MergedWithinRemove ==
    (Removed /\ configuration.showFolders) =>
        \A d \in StopFolders \ {RootId} :
            SingleChild(heap, d) =>
                LET top == ChainTop(Pre, d)
                    parent == Pre.fparent[top]
                    down == ChainDown(heap, d)
                    merged == ChainUp(Pre, top, d) \o Tail(down)
                    survivor == down[Len(down)]
                IN  /\ d \notin LiveFolders(heap)
                    /\ survivor \in LiveFolders(heap)
                    /\ heap.fparent[survivor] = parent
                    /\ IndexOf(heap.ffolders[parent], survivor)
                           = IndexOf(Pre.ffolders[parent], top)
                    /\ Len(heap.ffolders[parent]) = Len(Pre.ffolders[parent])
                    /\ heap.fname[survivor]
                           = JoinSlash([i \in 1..Len(merged) |-> Pre.fname[merged[i]]])

\* The folders, files and references reachable from the root, their child
\* lists and their parent links.
LiveTree(h) ==
    [folders |-> [d \in LiveFolders(h) |-> <<h.fparent[d], h.ffolders[d], h.ffiles[d]>>],
     files |-> [f \in LiveFiles(h) |-> <<h.iparent[f], h.irefs[f]>>],
     refs |-> [r \in LiveRefs(h) |-> h.rparent[r]]]

RemovedDetached == lastOp.op = "remove" /\ ~IsLive(Pre, lastOp.kind, lastOp.item)

\* C23: remove(node) with a node that is no longer attached (already removed,
\* or a folder merged away by compaction) is a no-op: it does not throw and
\* leaves the tree, the counts and the parent links of all live nodes
\* unchanged.
C23_DetachedRemoveIsNoOp ==
    RemovedDetached => ~heap.threw /\ LiveTree(heap) = LiveTree(Pre)

\* -------------------- ReferencesModel (src/src/models.ts), LocationsModel

VARIABLES
    flat,           \* the objects of the flat model under test
    flatSupplied,   \* the locations its constructor was given
    flatNav,        \* the call of nearest, next or previous made on the model
                    \* after the removes, with its arguments and its result
    flatLastOp      \* the last call on it, with the objects it was made on

flatVars == <<flat, flatSupplied, flatLastOp, flatNav>>

\* The objects of one ReferencesModel (LocationsModel has the same, with
\* `references` for `results` and `file` for `parent`):
\*   items            ReferencesModel.items
\*   furi, results    FileItem.uri, FileItem.results
\*   rloc, rfile      ReferenceItem.location, ReferenceItem.parent
\*   fired            what _onDidChange fired in the last call
EmptyFlat ==
    [items |-> <<>>, furi |-> <<>>, results |-> <<>>, rloc |-> <<>>, rfile |-> <<>>,
     fired |-> <<>>]

\* uri.with({ fragment: '' })
WithoutFragment(u) == [u EXCEPT !.fragment = <<>>]

\* ReferencesModel._compareUriIgnoreFragment
CompareUriIgnoreFragment(a, b) ==
    LET aStr == UriToString(WithoutFragment(a))
        bStr == UriToString(WithoutFragment(b))
    IN  IF StrLess(aStr, bStr) THEN -1
        ELSE IF StrLess(bStr, aStr) THEN 1
        ELSE 0

\* The loop body of the ReferencesModel constructor; `st` is <<objects, last>>.
FlatConstructStep(st, loc) ==
    LET m == st[1]
        last == st[2]
        fresh == last = Undef \/ CompareUriIgnoreFragment(m.furi[last], loc.uri) # 0
        file == IF fresh THEN Len(m.furi) + 1 ELSE last
        m1 == IF fresh
              THEN [m EXCEPT !.furi = Append(@, WithoutFragment(loc.uri)),
                             !.results = Append(@, <<>>),
                             !.items = Append(@, file)]
              ELSE m
        ref == Len(m1.rloc) + 1
    IN  <<[m1 EXCEPT !.rloc = Append(@, loc),
                     !.rfile = Append(@, file),
                     !.results[file] = Append(@, ref)],
          file>>

RECURSIVE FlatConstructLoop(_, _)
FlatConstructLoop(st, locations) ==
    IF locations = <<>> THEN st
    ELSE FlatConstructLoop(FlatConstructStep(st, Head(locations)), Tail(locations))

\* new ReferencesModel(source, uri, position, locations), once `locations`
\* has resolved; new LocationsModel(locations).
NewFlatModel(locations) ==
    FlatConstructLoop(<<EmptyFlat, Undef>>, SortLocations(locations))[1]

\* A del that removes nothing.
DelNothing(arr, e) == arr

\* del(array, e) of models.ts: nothing happens when e is not in the array.
Del(arr, e) == IF IndexOf(arr, e) = 0 THEN arr ELSE RemoveAt(arr, IndexOf(arr, e))

\* ReferencesModel.remove(item); `kind` tells a FileItem from a ReferenceItem.
\* The event is the model ("model") or a file.
FlatRemoveItem(m0, kind, item) ==
    LET m == [m0 EXCEPT !.fired = <<>>]
    IN  IF kind = "file"
        THEN [m EXCEPT !.items = Del(@, item), !.fired = Append(@, <<"model", Undef>>)]
        ELSE LET parent == m.rfile[item]
                 m1 == [m EXCEPT !.results[parent] = Del(@, item)]
             IN  IF Len(m1.results[parent]) = 0
                 THEN [m1 EXCEPT !.items = Del(@, parent),
                                 !.fired = Append(@, <<"model", Undef>>)]
                 ELSE [m1 EXCEPT !.fired = Append(@, <<"file", parent>>)]

\* The listener of the ReferencesProvider constructor: what it fires as
\* onDidChangeTreeData for the model's event e, `undefined` (a refresh of the
\* root) unless e is a FileItem.
TreeDataEvent(e) == IF e[1] = "file" THEN e ELSE <<"undefined", Undef>>

\* Locations of two documents, one of them (a notebook) with cells that are
\* named by the fragment of the uri.
FlatLocUniverse ==
    << Loc([path |-> PathOf(<<"b">>), fragment |-> <<>>], Pos(1, 0), Pos(1, 1)),
       Loc([path |-> PathOf(<<"b">>), fragment |-> <<>>], Pos(0, 0), Pos(0, 1)),
       Loc([path |-> PathOf(<<"a">>), fragment |-> <<"b">>], Pos(0, 0), Pos(0, 1)),
       Loc([path |-> PathOf(<<"a">>), fragment |-> <<"a">>], Pos(1, 0), Pos(1, 1)),
       Loc([path |-> PathOf(<<"a">>), fragment |-> <<>>], Pos(2, 0), Pos(2, 1)),
       Loc([path |-> PathOf(<<"a">>), fragment |-> <<>>], Pos(0, 0), Pos(0, 1)) >>

RECURSIVE FlatPick(_, _)
FlatPick(idx, k) ==
    IF k > Len(FlatLocUniverse) THEN <<>>
    ELSE IF k \in idx THEN <<FlatLocUniverse[k]>> \o FlatPick(idx, k + 1)
    ELSE FlatPick(idx, k + 1)

FlatLocationLists ==
    {FlatPick(idx, 1) :
        idx \in {x \in SUBSET (1..Len(FlatLocUniverse)) : Cardinality(x) <= MaxLocs}}

\* An item or `undefined`: a kind and the number of the object.
NoItem == <<"undefined", Undef>>
NoNav == [op |-> "none", uri |-> FileUri(<<>>), position |-> Pos(0, 0),
          from |-> NoItem, result |-> NoItem]

\* vscode.Range.contains(position)
RangeContains(range, position) ==
    /\ ~IsBefore(position, range.start)
    /\ ~IsAfter(position, range.end)

\* ReferencesModel._prefixLen(a, b)
RECURSIVE PrefixLenFrom(_, _, _)
PrefixLenFrom(a, b, pos) ==
    IF pos < Len(a) /\ pos < Len(b) /\ a[pos + 1] = b[pos + 1]
    THEN PrefixLenFrom(a, b, pos + 1)
    ELSE pos

PrefixLen(a, b) == PrefixLenFrom(a, b, 0)

\* items[best].toString(): FileItem has no toString of its own, this is
\* Object.prototype.toString
FileItemToString ==
    <<"[", "o", "b", "j", "e", "c", "t", " ", "O", "b", "j", "e", "c", "t", "]">>

\* Steps (1) and (2) of nearest/first in the file `f`: a reference, or Undef
\* when the loops end without a return
NearestInFile(m, f, position) ==
    LET refs == m.results[f]
        containing == {k \in 1..Len(refs) :
                          RangeContains(m.rloc[refs[k]].range, position)}
        endsAfter == {k \in 1..Len(refs) :
                         IsAfter(m.rloc[refs[k]].range.end, position)}
        least(S) == CHOOSE k \in S : \A j \in S : k <= j
    IN  IF containing # {} THEN refs[least(containing)]
        ELSE IF endsAfter # {} THEN refs[least(endsAfter)]
        ELSE IF Len(refs) > 0 THEN refs[Len(refs)]
        ELSE Undef

\* The loop of step (3), from the index i (counted from 1) on: the value of
\* `best` at its end
RECURSIVE NearestBest(_, _, _, _, _)
NearestBest(m, uriStr, i, best, bestValue) ==
    IF i > Len(m.items) THEN best
    ELSE LET value == PrefixLen(UriToString(m.furi[m.items[i]]), uriStr)
         IN  NearestBest(m, uriStr, i + 1, IF value > bestValue THEN i ELSE best,
                         bestValue)

\* ReferencesModel.first() with this.uri and this.position, and
\* LocationsModel.nearest(uri, position): a reference, or Undef
Nearest(m, uri, position) ==
    IF Len(m.items) = 0 THEN Undef
    ELSE LET uriStr == UriToString(uri)
             matches == {i \in 1..Len(m.items) :
                            UriToString(m.furi[m.items[i]]) = uriStr}
             first == CHOOSE i \in matches : \A j \in matches : i <= j
             inFile == IF matches = {} THEN Undef
                       ELSE NearestInFile(m, m.items[first], position)
             best == NearestBest(m, uriStr, 2, 1,
                                 PrefixLen(FileItemToString, uriStr))
             results == m.results[m.items[best]]
         IN  IF inFile # Undef THEN inFile
             ELSE IF Len(results) = 0 THEN Undef
             ELSE results[1]

\* A _move of LocationsModel._move that stays at the file.
MoveFileStay(m, f, delta) == f

\* The inner _move of LocationsModel._move: the file next to `f`, around
\* the ends of this.items
MoveFile(m, f, delta) ==
    LET n == Len(m.items)
        idx == ((IndexOf(m.items, f) - 1) + delta + n) % n
    IN  m.items[idx + 1]

\* LocationsModel._move(item, fwd): a reference, or Undef
FlatMove(m, kind, item, fwd) ==
    LET delta == IF fwd THEN 1 ELSE -1
        first(refs) == IF refs = <<>> THEN Undef ELSE refs[1]
        tail(refs) == IF refs = <<>> THEN Undef ELSE refs[Len(refs)]
    IN  IF kind = "file"
        THEN IF fwd THEN first(m.results[MoveFile(m, item, delta)])
             ELSE tail(m.results[MoveFile(m, item, delta)])
        ELSE LET file == m.rfile[item]
                 idx == (IndexOf(m.results[file], item) - 1) + delta
             IN  IF idx < 0 THEN tail(m.results[MoveFile(m, file, delta)])
                 ELSE IF idx >= Len(m.results[file])
                 THEN first(m.results[MoveFile(m, file, delta)])
                 ELSE m.results[file][idx + 1]

\* LocationsModel.next(item) and previous(item): this._move(item, fwd) ?? item
FlatNextOrPrevious(m, kind, item, fwd) ==
    LET r == FlatMove(m, kind, item, fwd)
    IN  IF r = Undef THEN <<kind, item>> ELSE <<"reference", r>>

\* The items of the model: its files and their references.
FlatItems(m) ==
    {<<"file", m.items[i]>> : i \in 1..Len(m.items)}
    \cup UNION {{<<"reference", m.results[m.items[i]][k]>> :
                     k \in 1..Len(m.results[m.items[i]])} : i \in 1..Len(m.items)}

\* The documents and positions that a search is started at: the two
\* documents of the results, a cell of the notebook, and a document without
\* results; a position in a reference, one between and one after them.
AnchorUris ==
    { FileUri(PathOf(<<"a">>)), FileUri(PathOf(<<"b">>)),
      [path |-> PathOf(<<"a">>), fragment |-> <<"a">>],
      FileUri(PathOf(<<"a">>) \o <<"b">>) }
AnchorPositions == {Pos(1, 0), Pos(1, 5), Pos(3, 0)}

FlatInit ==
    /\ flatNav = NoNav
    /\ flatSupplied \in FlatLocationLists
    /\ flat = NewFlatModel(flatSupplied)
    /\ flatLastOp = [op |-> "new", kind |-> "model", item |-> Undef, pre |-> EmptyFlat]

FlatRemove(kind, item) ==
    /\ flatNav = NoNav
    /\ flat' = FlatRemoveItem(flat, kind, item)
    /\ flatLastOp' = [op |-> "remove", kind |-> kind, item |-> item, pre |-> flat]
    /\ UNCHANGED <<flatSupplied, flatNav>>

FlatRemoveFile == \E f \in 1..Len(flat.furi) : FlatRemove("file", f)
FlatRemoveReference == \E r \in 1..Len(flat.rloc) : FlatRemove("reference", r)

\* nearest(uri, position) is called on the model.
FlatNearest ==
    /\ flatNav = NoNav
    /\ \E uri \in AnchorUris, position \in AnchorPositions :
          LET r == Nearest(flat, uri, position)
          IN  flatNav' = [op |-> "nearest", uri |-> uri, position |-> position,
                          from |-> NoItem,
                          result |-> IF r = Undef THEN NoItem ELSE <<"reference", r>>]
    /\ UNCHANGED <<flat, flatSupplied, flatLastOp>>

\* next(from) is called with an item of the model.
FlatNext ==
    /\ flatNav = NoNav
    /\ \E from \in FlatItems(flat) :
          flatNav' = [NoNav EXCEPT !.op = "next", !.from = from,
                         !.result = FlatNextOrPrevious(flat, from[1], from[2], TRUE)]
    /\ UNCHANGED <<flat, flatSupplied, flatLastOp>>

\* previous(from) is called with an item of the model.
FlatPrevious ==
    /\ flatNav = NoNav
    /\ \E from \in FlatItems(flat) :
          flatNav' = [NoNav EXCEPT !.op = "previous", !.from = from,
                         !.result = FlatNextOrPrevious(flat, from[1], from[2], FALSE)]
    /\ UNCHANGED <<flat, flatSupplied, flatLastOp>>

\* -------------------------------------------------------- flat model: claims

\* C4: for any list of locations given to the flat model constructors, all
\* locations whose uris are equal when the fragment is ignored end up under
\* exactly one FileItem, and each FileItem's references are sorted ascending
\* by range start position.
C4_GroupedAndSorted ==
    flatLastOp.op = "new" =>
        /\ \A i, j \in 1..Len(flat.items) :
               i # j => WithoutFragment(flat.furi[flat.items[i]])
                            # WithoutFragment(flat.furi[flat.items[j]])
        /\ \A r \in 1..Len(flat.rloc) :
               /\ flat.furi[flat.rfile[r]] = WithoutFragment(flat.rloc[r].uri)
               /\ IndexOf(flat.items, flat.rfile[r]) # 0
               /\ IndexOf(flat.results[flat.rfile[r]], r) # 0
        /\ Len(flat.rloc) = Len(flatSupplied)
        /\ \A f \in 1..Len(flat.furi) : \A i, j \in 1..Len(flat.results[f]) :
               i < j => ~IsAfter(flat.rloc[flat.results[f][i]].range.start,
                                 flat.rloc[flat.results[f][j]].range.start)

\* The first half of C4 alone: one FileItem for each document.
C4_Grouped ==
    flatLastOp.op = "new" =>
        \A i, j \in 1..Len(flat.items) :
            i # j => WithoutFragment(flat.furi[flat.items[i]])
                         # WithoutFragment(flat.furi[flat.items[j]])

\* The array without the element e.
Without(arr, e) == SelectSeq(arr, LAMBDA x : x # e)

\* The last call removed an item that the model held.
FlatRemovedLive ==
    /\ flatLastOp.op = "remove"
    /\ <<flatLastOp.kind, flatLastOp.item>> \in FlatItems(flatLastOp.pre)

\* C28: removing a reference whose file keeps at least one reference fires
\* exactly one change event scoped to that file and leaves every other file
\* and the top-level list unchanged; removing a file, or the last reference
\* of a file, removes that file from the top-level list, leaves all other
\* files unchanged and fires exactly one change event scoped to the whole
\* model (a root refresh in the tree provider).
C28_RemoveEventScope ==
    FlatRemovedLive =>
        LET pre == flatLastOp.pre
            item == flatLastOp.item
            file == IF flatLastOp.kind = "file" THEN item ELSE pre.rfile[item]
            keeps == flatLastOp.kind = "reference" /\ Len(pre.results[file]) > 1
        IN  /\ Len(flat.fired) = 1
            /\ \A f \in 1..Len(flat.furi) : f # file => flat.results[f] = pre.results[f]
            /\ IF keeps
               THEN /\ flat.fired[1] = <<"file", file>>
                    /\ TreeDataEvent(flat.fired[1]) = <<"file", file>>
                    /\ flat.items = pre.items
                    /\ flat.results[file] = Without(pre.results[file], item)
               ELSE /\ flat.fired[1] = <<"model", Undef>>
                    /\ TreeDataEvent(flat.fired[1]) = <<"undefined", Undef>>
                    /\ flat.items = Without(pre.items, file)

\* The last reference of a file was removed from a model of several files.
C28_Witness ==
    /\ FlatRemovedLive
    /\ flatLastOp.kind = "reference"
    /\ Len(flatLastOp.pre.results[flatLastOp.pre.rfile[flatLastOp.item]]) = 1
    /\ Len(flat.items) >= 1
    /\ Len(flat.items) < Len(flatLastOp.pre.items)

\* ------------------------------------------- flat model, navigation: claims

\* The files of the model that hold the locations of the document of `uri`:
\* the constructor groups by the uri without its fragment.
FilesFor(uri) ==
    {flat.items[i] : i \in {j \in 1..Len(flat.items) :
        CompareUriIgnoreFragment(flat.furi[flat.items[j]], uri) = 0}}

\* `r` is what steps (1) and (2) describe in the file `f` for the position.
NearestOf(f, position, r) ==
    LET refs == flat.results[f]
        at(k) == flat.rloc[refs[k]].range
    IN  \E k \in 1..Len(refs) :
          /\ refs[k] = r
          /\ IF \E j \in 1..Len(refs) : RangeContains(at(j), position)
             THEN RangeContains(at(k), position)
             ELSE IF \E j \in 1..Len(refs) : IsAfter(at(j).end, position)
             THEN /\ IsAfter(at(k).end, position)
                  /\ \A j \in 1..(k - 1) : ~IsAfter(at(j).end, position)
             ELSE k = Len(refs)

\* C16: when the model has a file for the anchor uri, nearest/first returns a
\* reference of that file: one whose range contains the anchor position if
\* there is one, otherwise the first reference in list order whose range ends
\* after the position, otherwise the last reference of the file.
C16_NearestInAnchorFile ==
    (flatNav.op = "nearest" /\ FilesFor(flatNav.uri) # {}) =>
        /\ flatNav.result[1] = "reference"
        /\ \E f \in FilesFor(flatNav.uri) :
              NearestOf(f, flatNav.position, flatNav.result[2])

\* C16 for an anchor uri without a fragment.
C16_NoFragment ==
    flatNav.uri.fragment = <<>> => C16_NearestInAnchorFile

\* The length of the common prefix of the uri strings of the file and `uri`.
CommonPrefix(f, uri) == PrefixLen(UriToString(flat.furi[f]), UriToString(uri))

\* C17: when no file of the model matches the anchor uri, nearest/first
\* returns the first reference of the file whose uri string shares the
\* longest common prefix with the anchor uri string, among all the files of
\* the model.
C17_LongestCommonPrefix ==
    (flatNav.op = "nearest" /\ FilesFor(flatNav.uri) = {} /\ Len(flat.items) > 0) =>
        \E i \in 1..Len(flat.items) :
            /\ \A j \in 1..Len(flat.items) :
                  CommonPrefix(flat.items[j], flatNav.uri)
                      <= CommonPrefix(flat.items[i], flatNav.uri)
            /\ flatNav.result = <<"reference", flat.results[flat.items[i]][1]>>

\* The references of the model, file after file.
RECURSIVE FlatAllRefs(_, _)
FlatAllRefs(m, files) ==
    IF files = <<>> THEN <<>>
    ELSE m.results[Head(files)] \o FlatAllRefs(m, Tail(files))

\* The place after (delta 1) or before (delta -1) the k-th of n, around the ends.
Around(k, delta, n) == ((k - 1 + delta + n) % n) + 1

\* C19: next(from) and previous(from) of LocationsModel, for a file or a
\* reference that is in the model, return an item that is in the model, the
\* neighbouring reference around the ends of the files, or `from` itself;
\* never undefined.
C19_NextPreviousInModel ==
    flatNav.op \in {"next", "previous"} =>
        LET all == FlatAllRefs(flat, flat.items)
            delta == IF flatNav.op = "next" THEN 1 ELSE -1
            from == flatNav.from
        IN  /\ flatNav.result # NoItem
            /\ flatNav.result \in FlatItems(flat)
            /\ from[1] = "reference" =>
                  flatNav.result =
                      <<"reference", all[Around(IndexOf(all, from[2]), delta, Len(all))]>>
            /\ from[1] = "file" =>
                  LET f == flat.items[Around(IndexOf(flat.items, from[2]), delta,
                                             Len(flat.items))]
                  IN  flatNav.result =
                          <<"reference", IF delta = 1 THEN flat.results[f][1]
                                         ELSE flat.results[f][Len(flat.results[f])]>>

\* previous() was called on the first reference of a model of two files,
\* after a reference was removed.
C19_Witness ==
    /\ flatNav.op = "previous"
    /\ Len(flat.items) = 2
    /\ flatNav.from = <<"reference", flat.results[flat.items[1]][1]>>
    /\ flatLastOp.op = "remove"

\* move restricted to the references of m is the cyclic permutation that
\* steps through the files of m and, in each, through its references:
\* move(r, true) is the reference after r, around the end, every reference
\* is there once, and move(move(r, true), false) is r.
FlatMoveCycles(m) ==
    LET all == FlatAllRefs(m, m.items)
        n == Len(all)
    IN  \A k \in 1..n :
            /\ \A j \in 1..n : all[j] = all[k] => j = k
            /\ FlatMove(m, "reference", all[k], TRUE) = all[Around(k, 1, n)]
            /\ FlatMove(m, "reference", all[Around(k, 1, n)], FALSE) = all[k]

\* The files of m are in the order of their uris and the references of each
\* file in the order of their start positions.
FlatInOrder(m) ==
    /\ \A i, j \in 1..Len(m.items) :
          i < j => StrLess(UriToString(m.furi[m.items[i]]), UriToString(m.furi[m.items[j]]))
    /\ \A i \in 1..Len(m.items) : \A k, l \in 1..Len(m.results[m.items[i]]) :
          k < l => ~IsAfter(m.rloc[m.results[m.items[i]][k]].range.start,
                            m.rloc[m.results[m.items[i]][l]].range.start)

\* C34: move of the flat model, restricted to references, is a cyclic
\* permutation of the references of the model: from any reference, repeated
\* move(r, true) visits every reference exactly once, in file order and then
\* position order, around from the last file to the first, and
\* move(move(r, true), false) is r.
C34_MoveCyclesInOrder ==
    FlatMoveCycles(flat) /\ FlatInOrder(flat)

\* The cycle alone, in the order in which the model holds its files and
\* references.
C34_MoveCycles == FlatMoveCycles(flat)

\* All of C34 for the models of locations without a fragment.
C34_NoFragment ==
    (\A r \in 1..Len(flat.rloc) : flat.rloc[r].uri.fragment = <<>>) => C34_MoveCyclesInOrder

\* ------------------------------------------------ SymbolsTree (src/src/tree.ts)

\* The largest number of setInput calls.
MaxInputs == 3

VARIABLES
    tree,           \* SymbolsTree, its TreeDataProviderDelegate and TreeInputHistory
    treeLastOp      \* the last step taken; for the settling of a promise, with the
                    \* state it was taken in

treeVars == <<tree, treeLastOp>>

\* The classes of SymbolTreeInput and the values of SymbolTreeInput.hash.
InputKinds == {"references", "calls"}
InputHashes == {"h1", "h2"}

None == <<"none", Undef>>
HistoryProvider == <<"history", Undef>>
NoResults == <<"No results.", Undef>>
NoResultsTryAgain == <<"No results. Try running a previous search again:", Undef>>

\*   inputs       every SymbolTreeInput given to setInput, by call order, with
\*                the state of the promise its resolve() returned
\*   input        SymbolsTree._input
\*   session      SymbolsTree._sessionDisposable (the input it was made for)
\*   live         the inputs whose highlights and listener are not disposed
\*   title, message   TreeView.title, TreeView.message
\*   provider     TreeDataProviderDelegate.provider
\*   listening    TreeDataProviderDelegate._sessionDispoables
\*   subscribed   the providers whose onDidChangeTreeData has a listener of the
\*                delegate that is not disposed, one entry for each listener:
\*                their events are fired again by the delegate
\*   latest       the promise given to the last update() of the delegate
\*   history      TreeInputHistory._inputs, in insertion order
\*   hasResult    the context key reference-list.hasResult
\*   escaped      the inputs whose rejection left setInput as a rejected promise
\*   reruns       <<input, hash>>: the input was made by re-running the history
\*                entry of that hash, and the history was not cleared since
NewSymbolsTree ==
    [inputs |-> <<>>, input |-> Undef, session |-> Undef, live |-> {},
     title |-> None, message |-> None, provider |-> None, listening |-> None,
     subscribed |-> <<>>, latest |-> None,
     history |-> <<>>, hasResult |-> FALSE, escaped |-> {}, reruns |-> {}]

\* this._sessionDisposable?.dispose()
DisposeSession(t) == [t EXCEPT !.live = @ \ {t.session}]

\* TreeDataProviderDelegate.update(provider), up to the callbacks on `provider`
DelegateUpdate(t, provider) ==
    [t EXCEPT !.subscribed = IF t.listening = None THEN @ ELSE Del(@, t.listening),
              !.listening = None, !.provider = provider, !.latest = provider]

\* A `then` callback without `if (this.provider === provider)`.
DelegateThenUnguarded(t, provider) ==
    [t EXCEPT !.listening = provider, !.subscribed = Append(@, provider)]

\* the `then` callback of TreeDataProviderDelegate.update, run for `provider`
DelegateThen(t, provider) ==
    IF t.provider = provider
    THEN [t EXCEPT !.listening = provider, !.subscribed = Append(@, provider)]
    ELSE t

\* the `catch` callback of TreeDataProviderDelegate.update, run for `provider`
DelegateCatch(t, provider) == [t EXCEPT !.provider = None]

RECURSIVE WithoutHash(_, _, _)
WithoutHash(t, hist, hash) ==
    IF hist = <<>> THEN <<>>
    ELSE IF t.inputs[Head(hist)].hash = hash THEN WithoutHash(t, Tail(hist), hash)
    ELSE <<Head(hist)>> \o WithoutHash(t, Tail(hist), hash)

\* A TreeInputHistory.add that adds nothing.
HistoryAddNothing(t, id) == t

\* TreeDataProviderDelegate._assertProvider() returns: getTreeItem,
\* getChildren and getParent throw 'MISSING provider' otherwise
AssertProvider(t) == t.provider # None

\* TreeInputHistory.add(input)
HistoryAdd(t, id) ==
    [t EXCEPT !.history = Append(WithoutHash(t, @, t.inputs[id].hash), id)]

\* SymbolsTree.clearInput(), with the callback of the resolved promise that it
\* hands to the delegate
ClearInputOf(t) ==
    LET t1 == [DisposeSession(t) EXCEPT !.input = Undef, !.hasResult = FALSE,
                                        !.title = <<"References", Undef>>,
                                        !.message = None]
        t2 == DelegateUpdate(t1, HistoryProvider)
        t3 == IF Len(t2.history) = 0 THEN [t2 EXCEPT !.message = NoResults] ELSE t2
    IN  <<t3, HistoryProvider>>

\* SymbolsTree.setInput(input) up to `await modelPromise`
SetInputStart(t, kind, hash) ==
    LET id == Len(t.inputs) + 1
        newInputKind == t.input = Undef \/ t.inputs[t.input].kind # kind
        t1 == [t EXCEPT !.inputs = Append(@, [kind |-> kind, hash |-> hash,
                                              state |-> "pending", empty |-> FALSE]),
                        !.hasResult = TRUE,
                        !.input = id]
        t2 == [DisposeSession(t1) EXCEPT !.title = <<"input", id>>,
                                         !.message = IF newInputKind THEN None ELSE @]
    IN  DelegateUpdate(t2, <<"input", id>>)

\* `if (this._input !== input) return;`
IsStale(t, id) == t.input # id

\* TreeInputHistory._reRunHistoryItem(item): item.input is the input `item`,
\* and `hash` the hash of item.input.with(the position of the anchor)
ReRunHistoryItem(t, item, hash) ==
    LET t1 == [t EXCEPT !.history = WithoutHash(t, @, t.inputs[item].hash),
                        !.reruns = @ \cup {<<Len(t.inputs) + 1, t.inputs[item].hash>>}]
    IN  SetInputStart(t1, t.inputs[item].kind, hash)

\* this._inputs.get(input?.hash ?? ''): the entries of the history that have
\* the hash of the current input
HistoryGet(t) ==
    IF t.input = Undef THEN {}
    ELSE {t.history[k] : k \in {j \in 1..Len(t.history) :
                                   t.inputs[t.history[j]].hash = t.inputs[t.input].hash}}

\* SymbolsTree.setInput(input) after `await modelPromise` has yielded a model;
\* the second component is the promise handed to the delegate on the way
SetInputRest(t, id, empty) ==
    IF IsStale(t, id) THEN <<t, None>>
    ELSE IF empty
    THEN LET c == ClearInputOf(t)
         IN  <<[c[1] EXCEPT !.message = IF Len(c[1].history) = 0 THEN NoResults
                                         ELSE NoResultsTryAgain],
               c[2]>>
    ELSE <<[HistoryAdd(t, id) EXCEPT !.message = <<"model", id>>,
                                     !.session = id,
                                     !.live = @ \cup {id}],
           None>>

TreeInit ==
    /\ tree = NewSymbolsTree
    /\ treeLastOp = [op |-> "new", input |-> Undef, pre |-> NewSymbolsTree]

\* The inputs that a command can give: a class and a hash. Classes and hashes
\* are only compared with each other, so the first input is taken to be of
\* the class "references" with the hash "h1".
InputsToGive(t) ==
    IF t.inputs = <<>> THEN {<<"references", "h1">>} ELSE InputKinds \X InputHashes

\* A command calls setInput with a new input.
SetInput ==
    /\ Len(tree.inputs) < MaxInputs
    /\ \E i \in InputsToGive(tree) :
          /\ tree' = SetInputStart(tree, i[1], i[2])
          /\ treeLastOp' = [op |-> "setInput", input |-> Len(tree.inputs) + 1, pre |-> NewSymbolsTree]

\* The command references-view.clear.
ClearInput ==
    /\ LET c == ClearInputOf(tree) IN tree' = DelegateThen(c[1], c[2])
    /\ treeLastOp' = [op |-> "clearInput", input |-> Undef, pre |-> NewSymbolsTree]

\* The command references-view.refind on an item of the history.
Refind ==
    /\ Len(tree.inputs) < MaxInputs
    /\ \E k \in 1..Len(tree.history), hash \in InputHashes :
          /\ tree' = ReRunHistoryItem(tree, tree.history[k], hash)
          /\ treeLastOp' = [op |-> "refind", input |-> Len(tree.inputs) + 1, pre |-> NewSymbolsTree]

\* The command references-view.refresh; the item of the history is there
\* when the command awaits it.
Refresh ==
    /\ Len(tree.inputs) < MaxInputs
    /\ \E item \in HistoryGet(tree), hash \in InputHashes :
          /\ tree' = ReRunHistoryItem(tree, item, hash)
          /\ treeLastOp' = [op |-> "refresh", input |-> Len(tree.inputs) + 1, pre |-> NewSymbolsTree]

\* The command references-view.clearHistory.
ClearHistory ==
    /\ LET c == ClearInputOf([tree EXCEPT !.history = <<>>, !.reruns = {}])
       IN  tree' = DelegateThen(c[1], c[2])
    /\ treeLastOp' = [op |-> "clearHistory", input |-> Undef, pre |-> NewSymbolsTree]

\* The promise of input.resolve() is fulfilled with a model: setInput resumes,
\* then the callbacks of the delegate run.
ModelFulfilled ==
    \E id \in 1..Len(tree.inputs), empty \in BOOLEAN :
        /\ tree.inputs[id].state = "pending"
        /\ LET t1 == [tree EXCEPT !.inputs[id].state = "fulfilled",
                                  !.inputs[id].empty = empty]
               r == SetInputRest(t1, id, empty)
               t2 == DelegateThen(r[1], <<"input", id>>)
           IN  tree' = IF r[2] = None THEN t2 ELSE DelegateThen(t2, r[2])
        /\ treeLastOp' = [op |-> "fulfilled", input |-> id, pre |-> tree]

\* The promise of input.resolve() is rejected: setInput throws at its await,
\* and the delegate's catch callback runs.
ModelRejected ==
    \E id \in 1..Len(tree.inputs) :
        /\ tree.inputs[id].state = "pending"
        /\ tree' = DelegateCatch([tree EXCEPT !.inputs[id].state = "rejected",
                                              !.escaped = @ \cup {id}],
                                 <<"input", id>>)
        /\ treeLastOp' = [op |-> "rejected", input |-> id, pre |-> tree]

\* ------------------------------------------------------- SymbolsTree: claims

TreePre == treeLastOp.pre

\* The last step settled the promise of an input that was no longer the
\* current one: setInput or clearInput had been called since.
StaleSettled ==
    /\ treeLastOp.op \in {"fulfilled", "rejected"}
    /\ TreePre.input # treeLastOp.input

AllSettled == \A id \in 1..Len(tree.inputs) : tree.inputs[id].state # "pending"

\* C7: when setInput(B) or clearInput() was called while setInput(A) awaited
\* its model, A's later resolution changes neither the history, the message,
\* the highlights nor the session disposables; and once every resolution has
\* settled the tree presents the state of the current input B, or the cleared
\* state.
C7_StaleResolutionDiscarded ==
    /\ StaleSettled =>
          /\ tree.history = TreePre.history
          /\ tree.message = TreePre.message
          /\ tree.live = TreePre.live
          /\ tree.session = TreePre.session
    /\ (AllSettled /\ tree.input # Undef /\ tree.inputs[tree.input].state = "fulfilled") =>
          /\ tree.provider = <<"input", tree.input>>
          /\ tree.message = <<"model", tree.input>>
          /\ tree.title = <<"input", tree.input>>
          /\ tree.live = {tree.input}
    /\ (AllSettled /\ tree.input = Undef /\ treeLastOp.op # "new") =>
          /\ tree.provider = HistoryProvider
          /\ tree.live = {}

\* The last step rejected the promise of a provider that a later update() of
\* the delegate had replaced.
ReplacedRejected ==
    /\ treeLastOp.op = "rejected"
    /\ TreePre.provider # <<"input", treeLastOp.input>>
    /\ AssertProvider(TreePre)

\* C38: the delegate fires again only the change events of its current
\* backing provider: after update(P2) no listener of the delegate is left on
\* an earlier provider P1, also when P1's promise resolves only after the
\* switch to P2.
C38_OnlyCurrentProviderRefired ==
    \A k \in 1..Len(tree.subscribed) : tree.subscribed[k] = tree.latest

\* The promise of an input resolved with a model after the delegate had been
\* switched to a later provider, which the delegate listens to.
C38_Witness ==
    /\ treeLastOp.op = "fulfilled"
    /\ ~tree.inputs[treeLastOp.input].empty
    /\ TreePre.latest # <<"input", treeLastOp.input>>
    /\ tree.subscribed = <<tree.latest>>

\* C32: the rejection of a provider promise that a later update() has
\* replaced leaves the provider of the delegate unchanged: getChildren,
\* getParent and getTreeItem keep delegating to the latest provider and do
\* not throw 'MISSING provider'.
C32_ReplacedRejectionKeepsProvider ==
    ReplacedRejected =>
        /\ tree.provider = TreePre.provider
        /\ AssertProvider(tree)

\* ------------------- the controller of src/unnamed/part_004 (ReferencesModel)

\* The largest number of findReferencesCommand calls.
MaxSearches == 3

VARIABLES
    ctl,            \* the state that the closures of activate() share
    ctlLastOp       \* the last event, with the state it arrived in

ctlVars == <<ctl, ctlLastOp>>

\* HistoryItem.makeId(source, uri, position) of the searches
Anchors == {"a1", "a2"}

NoMessage == <<"none", Undef, Undef>>

\*   searches    every ReferencesModel made by findReferencesCommand, by call
\*               order: the state of its `items` promise, the number of its
\*               files, the continuations that await its items, the position
\*               of its updateReferencesModel call, the model whose items its
\*               showResultsMessage awaited, and whether a later search was
\*               started before its items resolved
\*   model       `let model` of activate()
\*   highlights  EditorHighlights._model
\*   provider    TreeDataProviderWrapper._provider
\*   message, title   view.message, view.title
\*   history     History._items in insertion order
\*   queue       the continuations that are ready to run
\*   clearedBy   <<search, model>> for every updateModel(undefined) that a
\*               search made, with the model it replaced
NewController ==
    [searches |-> <<>>, model |-> Undef, highlights |-> Undef, provider |-> None,
     message |-> NoMessage, title |-> <<"unset", Undef>>, hasResult |-> FALSE,
     history |-> <<>>, queue |-> <<>>, clearedBy |-> {}]

\* showNoResultsMessage
ShowNoResultsMessage(c) ==
    [c EXCEPT !.message = IF Len(c.history) = 0
                          THEN <<"No results.", Undef, Undef>>
                          ELSE <<"No results. Try running a previous search again:",
                                 Undef, Undef>>,
              !.title = <<"Results", Undef>>]

\* updateModel(newModel) up to the call of showResultsMessage
UpdateModelStart(c, newModel) ==
    [c EXCEPT !.model = newModel,
              !.message = NoMessage,
              !.highlights = newModel,
              !.hasResult = newModel # Undef,
              !.provider = IF newModel # Undef THEN <<"model", newModel>>
                           ELSE HistoryProvider]

\* updateModel(undefined)
UpdateModelUndefined(c) == ShowNoResultsMessage(UpdateModelStart(c, Undef))

RECURSIVE WithoutAnchor(_, _, _)
WithoutAnchor(c, hist, anchor) ==
    IF hist = <<>> THEN <<>>
    ELSE IF c.searches[Head(hist)].anchor = anchor THEN WithoutAnchor(c, Tail(hist), anchor)
    ELSE <<Head(hist)>> \o WithoutAnchor(c, Tail(hist), anchor)

\* history.add(item), the item made by search `id`
ControllerHistoryAdd(c, id) ==
    [c EXCEPT !.history = Append(WithoutAnchor(c, @, c.searches[id].anchor), id)]

Enqueue(c, id, pc) == [c EXCEPT !.queue = Append(@, <<id, pc>>)]

\* an await of search `id` throws: updateReferencesModel ends rejected
Fail(c, id) == [c EXCEPT !.searches[id].pc = "failed"]

\* `await m.items` by search `id`, to go on at `pc`
AwaitItems(c, id, m, pc) ==
    IF c.searches[m].items = "fulfilled" THEN Enqueue(c, id, pc)
    ELSE IF c.searches[m].items = "rejected" THEN Fail(c, id)
    ELSE [c EXCEPT !.searches[m].waiters = Append(@, <<id, pc>>)]

\* One continuation of updateReferencesModel(model) for search `id`:
\*   total      model.total() after `await this.items`
\*   files      showResultsMessage at `(await model.items).length`
\*   message    showResultsMessage after that await
\*   updated    updateModel after `await showResultsMessage()`
\*   bail       updateReferencesModel after `await updateModel(model)`
\*   empty      updateReferencesModel after `await model.items`
\*   first      model.first() after `await this.items`
\*   reveal     updateReferencesModel after `await model.first()`
RunContinuation(c, id, pc) ==
    CASE pc = "total" -> Enqueue(c, id, "files")
      [] pc = "files" ->
            IF c.model = Undef THEN Fail(c, id)
            ELSE AwaitItems([c EXCEPT !.searches[id].filesOf = c.model], id, c.model,
                            "message")
      [] pc = "message" ->
            LET c1 == [c EXCEPT !.message = <<"results", id, c.searches[id].filesOf>>]
            IN  IF c1.model = Undef THEN Fail(c1, id)
                ELSE Enqueue([c1 EXCEPT !.title = <<"Results (total)", id>>],
                             id, "updated")
      [] pc = "updated" -> Enqueue(c, id, "bail")
      [] pc = "bail" -> AwaitItems(c, id, id, "empty")
      [] pc = "empty" ->
            IF c.searches[id].count = 0
            THEN [UpdateModelUndefined(c) EXCEPT
                      !.clearedBy = @ \cup {<<id, c.model>>},
                      !.searches[id].pc = "done"]
            ELSE Enqueue(c, id, "first")
      [] pc = "first" -> Enqueue(c, id, "reveal")
      [] pc = "reveal" -> [c EXCEPT !.searches[id].pc = "awaitDoc"]

\* The continuations run one after the other until none is ready.
RECURSIVE Drain(_)
Drain(c) ==
    IF c.queue = <<>> THEN c
    ELSE Drain(RunContinuation([c EXCEPT !.queue = Tail(@)],
                               Head(c.queue)[1], Head(c.queue)[2]))

RECURSIVE FailAll(_, _)
FailAll(c, waiters) ==
    IF waiters = <<>> THEN c
    ELSE FailAll(Fail(c, Head(waiters)[1]), Tail(waiters))

ControllerInit ==
    /\ ctl = NewController
    /\ ctlLastOp = [op |-> "new", search |-> Undef, pre |-> NewController]

\* findReferencesCommand with a model: updateReferencesModel(model) up to the
\* await in model.total()
FindReferences ==
    /\ Len(ctl.searches) < MaxSearches
    /\ \E anchor \in Anchors :
          LET id == Len(ctl.searches) + 1
              older == [i \in 1..Len(ctl.searches) |->
                           IF ctl.searches[i].items = "pending"
                           THEN [ctl.searches[i] EXCEPT !.superseded = TRUE]
                           ELSE ctl.searches[i]]
              search == [anchor |-> anchor, items |-> "pending", count |-> 0,
                         waiters |-> <<<<id, "total">>>>, pc |-> "running",
                         filesOf |-> Undef, superseded |-> FALSE]
          IN  /\ ctl' = UpdateModelStart([ctl EXCEPT !.searches = Append(older, search)], id)
              /\ ctlLastOp' = [op |-> "find", search |-> id, pre |-> ctl]

\* clearCommand, and findReferencesCommand without a model
ClearResults ==
    /\ ctl' = UpdateModelUndefined(ctl)
    /\ ctlLastOp' = [op |-> "clear", search |-> Undef, pre |-> ctl]

\* clearHistoryCommand
ClearControllerHistory ==
    /\ ctl' = UpdateModelUndefined([ctl EXCEPT !.history = <<>>])
    /\ ctlLastOp' = [op |-> "clearHistory", search |-> Undef, pre |-> ctl]

\* The provider call of a search returns `count` files of locations.
ItemsFulfilled ==
    \E id \in 1..Len(ctl.searches), count \in 0..1 :
        /\ ctl.searches[id].items = "pending"
        /\ ctl' = Drain([ctl EXCEPT !.searches[id].items = "fulfilled",
                                    !.searches[id].count = count,
                                    !.searches[id].waiters = <<>>,
                                    !.queue = ctl.searches[id].waiters])
        /\ ctlLastOp' = [op |-> "itemsFulfilled", search |-> id, pre |-> ctl]

\* The provider call of a search fails.
ItemsRejected ==
    \E id \in 1..Len(ctl.searches) :
        /\ ctl.searches[id].items = "pending"
        /\ ctl' = FailAll([ctl EXCEPT !.searches[id].items = "rejected",
                                      !.searches[id].waiters = <<>>],
                          ctl.searches[id].waiters)
        /\ ctlLastOp' = [op |-> "itemsRejected", search |-> id, pre |-> ctl]

\* openTextDocument of asHistoryItem settles: with a document there is an
\* item to add, without one asHistoryItem returns undefined.
DocumentOpened ==
    \E id \in 1..Len(ctl.searches), opened \in BOOLEAN :
        /\ ctl.searches[id].pc = "awaitDoc"
        /\ ctl' = [(IF opened THEN ControllerHistoryAdd(ctl, id) ELSE ctl) EXCEPT
                       !.searches[id].pc = "done"]
        /\ ctlLastOp' = [op |-> "documentOpened", search |-> id, pre |-> ctl]

\* -------------------------------------------------- part_004 controller: claims

\* C8: a search that was superseded by a newer search and only then resolves
\* does not touch the newer session: with zero results it does not clear the
\* newer model, and it is never added to the history.
C8_SupersededSearchTouchesNothing ==
    /\ \A e \in ctl.clearedBy :
          ctl.searches[e[1]].superseded => e[2] \in {Undef, e[1]}
    /\ \A i \in 1..Len(ctl.history) : ~ctl.searches[ctl.history[i]].superseded

\* The first half of C8 alone.
C8_NewerModelNotCleared ==
    \A e \in ctl.clearedBy : ctl.searches[e[1]].superseded => e[2] \in {Undef, e[1]}

\* The second half of C8 alone.
C8_SupersededNotInHistory ==
    \A i \in 1..Len(ctl.history) : ~ctl.searches[ctl.history[i]].superseded

\* --------------------- the controller of src/src/extension.ts (findCommand)

\* The largest number of findCommand calls.
MaxFinds == 3

VARIABLES
    fc,             \* the state that the closures of activate() share
    fcLastOp        \* the last event, with the state it arrived in

fcVars == <<fc, fcLastOp>>

\*   finds          every call of findCommand, by call order: where the call
\*                  stands, whether Model.create was called, what its promise
\*                  was settled with, the history id of its anchor, and where
\*                  its History.add call stands
\*   model          `let model` of activate()
\*   modelCreation  DataProvider._modelCreation (the find that made it)
\*   modelListener  DataProvider._modelListener (the model listened to)
\*   highlights     EditorHighlights model
\*   message        view.message
\*   history        History._items in insertion order (the finds added)
\*   hasResult      the context key reference-list.hasResult
NewFindController ==
    [finds |-> <<>>, model |-> Undef, modelCreation |-> Undef, modelListener |-> Undef,
     highlights |-> Undef, message |-> None, history |-> <<>>, hasResult |-> FALSE]

\* showNoResult
ShowNoResult(c) ==
    [c EXCEPT !.message = IF Len(c.history) = 0 THEN <<"No results found.", Undef>>
                          ELSE <<"No results found, run a previous search again:", Undef>>]

\* DataProvider.setModelCreation(modelCreation) up to the callback
SetModelCreation(c, modelCreation) ==
    [c EXCEPT !.modelListener = Undef, !.modelCreation = modelCreation]

\* the callback that setModelCreation puts on the promise, run with `model`
ModelCreationThen(c, modelCreation, model) ==
    IF model # Undef /\ modelCreation = c.modelCreation
    THEN [c EXCEPT !.modelListener = model]
    ELSE c

\* findCommand from the return of the setContext command to
\* `await modelCreation`; `create` tells whether Model.create was called
FindCommandStart(c, id, create) ==
    LET c1 == [c EXCEPT !.highlights = Undef, !.message = None,
                        !.finds[id].created = create]
    IN  IF create
        THEN [SetModelCreation(c1, id) EXCEPT !.finds[id].stage = "creating"]
        ELSE [ShowNoResult(SetModelCreation(c1, Undef)) EXCEPT !.finds[id].stage = "done"]

\* findCommand after `model = await modelCreation`; `model` is Undef when the
\* promise yields undefined, `empty` tells model.items.length === 0
FindCommandRest(c, id, model, empty) ==
    LET c1 == [c EXCEPT !.model = model, !.hasResult = model # Undef,
                        !.finds[id].stage = "done"]
    IN  IF model = Undef \/ empty THEN ShowNoResult(c1)
        ELSE [c1 EXCEPT !.finds[id].adding = "opening",
                        !.highlights = model,
                        !.message = <<"results", model>>]

RECURSIVE WithoutFindAnchor(_, _, _)
WithoutFindAnchor(c, hist, anchor) ==
    IF hist = <<>> THEN <<>>
    ELSE IF c.finds[Head(hist)].anchor = anchor
    THEN WithoutFindAnchor(c, Tail(hist), anchor)
    ELSE <<Head(hist)>> \o WithoutFindAnchor(c, Tail(hist), anchor)

\* History.add(model) after `await openTextDocument(uri)`; `word` tells
\* whether the document opened and has a word at the position
FindHistoryAdd(c, id, word) ==
    IF word
    THEN [c EXCEPT !.history = Append(WithoutFindAnchor(c, @, c.finds[id].anchor), id),
                   !.finds[id].adding = "added"]
    ELSE [c EXCEPT !.finds[id].adding = "dropped"]

FindInit ==
    /\ fc = NewFindController
    /\ fcLastOp = [op |-> "new", find |-> Undef, pre |-> NewFindController]

\* A command (find, refind, refresh) calls findCommand, which awaits the
\* setContext command.
FindCommand ==
    /\ Len(fc.finds) < MaxFinds
    /\ \E anchor \in Anchors :
          fc' = [fc EXCEPT !.finds = Append(@, [stage |-> "context", created |-> FALSE,
                                                result |-> "pending", anchor |-> anchor,
                                                adding |-> "no"])]
    /\ fcLastOp' = [op |-> "find", find |-> Len(fc.finds) + 1, pre |-> fc]

\* The setContext command of a findCommand call returns; the commands are
\* answered in the order in which they were sent.
ContextSet ==
    \E id \in 1..Len(fc.finds), create \in BOOLEAN :
        /\ fc.finds[id].stage = "context"
        /\ \A j \in 1..(id - 1) : fc.finds[j].stage # "context"
        /\ fc' = FindCommandStart(fc, id, create)
        /\ fcLastOp' = [op |-> "contextSet", find |-> id, pre |-> fc]

\* The promise of Model.create is fulfilled, with a model or undefined: the
\* callback of the provider runs, then findCommand resumes.
ModelCreated ==
    \E id \in 1..Len(fc.finds), result \in {"model", "empty", "undefined"} :
        /\ fc.finds[id].stage = "creating"
        /\ LET model == IF result = "undefined" THEN Undef ELSE id
               c1 == [fc EXCEPT !.finds[id].result = result]
           IN  fc' = FindCommandRest(ModelCreationThen(c1, id, model), id, model,
                                     result = "empty")
        /\ fcLastOp' = [op |-> "modelCreated", find |-> id, pre |-> fc]

\* The promise of Model.create is rejected: findCommand throws at its await.
ModelCreationFailed ==
    \E id \in 1..Len(fc.finds) :
        /\ fc.finds[id].stage = "creating"
        /\ fc' = [fc EXCEPT !.finds[id].result = "rejected", !.finds[id].stage = "failed"]
        /\ fcLastOp' = [op |-> "modelCreationFailed", find |-> id, pre |-> fc]

\* openTextDocument of a History.add call settles.
FindDocumentOpened ==
    \E id \in 1..Len(fc.finds), word \in BOOLEAN :
        /\ fc.finds[id].adding = "opening"
        /\ fc' = FindHistoryAdd(fc, id, word)
        /\ fcLastOp' = [op |-> "documentOpened", find |-> id, pre |-> fc]

\* clearCommand
ClearCommand ==
    /\ fc' = [SetModelCreation(fc, Undef) EXCEPT !.hasResult = FALSE, !.highlights = Undef]
    /\ fcLastOp' = [op |-> "clear", find |-> Undef, pre |-> fc]

\* ------------------------------------------------- findCommand controller: claims

AllFindsSettled ==
    \A id \in 1..Len(fc.finds) : fc.finds[id].stage \in {"done", "failed"}

\* The model a settled find yielded.
ModelOfFind(id) == IF fc.finds[id].result = "undefined" THEN Undef ELSE id

\* C9: once all outstanding searches have settled, the `model` variable of the
\* controller is the model of the most recently issued find command, which is
\* the model whose creation promise the tree provider presents.
C9_ModelIsLatestFind ==
    (/\ AllFindsSettled
     /\ fc.modelCreation # Undef
     /\ fc.finds[fc.modelCreation].result \in {"model", "empty", "undefined"}) =>
        /\ fc.modelCreation = Len(fc.finds)
        /\ fc.model = ModelOfFind(fc.modelCreation)

\* The provider presents the creation promise of the latest find that made one.
C9_ProviderPresentsLatest ==
    fc.modelCreation # Undef =>
        \A id \in 1..Len(fc.finds) :
            (fc.finds[id].created /\ fc.finds[id].stage # "context") => id <= fc.modelCreation

\* ---------- ReferenceSearchModel (src/src/extension.ts, src/unnamed/part_007)

\* The largest number of provider calls, and of accesses of `resolve` between
\* two reset() calls.
MaxCalls == 3
MaxAccesses == 3

VARIABLES
    rs,             \* one ReferenceSearchModel and the provider calls it made
    rsLastOp        \* the last step taken

rsVars == <<rs, rsLastOp>>

\*   resolve       ReferenceSearchModel._resolve: the _doResolve call whose
\*                 promise it holds
\*   calls         the executeReferenceProvider calls made, by call order
\*   items, total  ReferenceSearchModel.items (each FileItem with the call
\*                 that made it), ReferenceSearchModel._total
\*   accesses      the promises that the accesses of `resolve` returned since
\*                 the last reset()
\*   callsAtReset  the number of provider calls made before the last reset()
NewReferenceSearchModel ==
    [resolve |-> Undef, calls |-> <<>>, items |-> <<>>, total |-> 0,
     accesses |-> <<>>, callsAtReset |-> 0]

\* A resolve getter that starts a resolution at every access.
NeedsResolveAlways(r) == TRUE

\* `if (!this._resolve)` of the resolve getter
NeedsResolve(r) == r.resolve = Undef

\* _doResolve up to `await vscode.commands.executeCommand(...)`
DoResolveStart(r) ==
    [r EXCEPT !.items = <<>>, !.calls = Append(@, "pending")]

\* the resolve getter; the promise returned is r.resolve afterwards
ResolveGetter(r) ==
    IF NeedsResolve(r)
    THEN LET r1 == DoResolveStart(r) IN [r1 EXCEPT !.resolve = Len(r1.calls)]
    ELSE r

\* ReferenceSearchModel._compareLocations
CompareSearchLocations(a, b) ==
    IF StrLess(UriToString(a.uri), UriToString(b.uri)) THEN -1
    ELSE IF StrLess(UriToString(b.uri), UriToString(a.uri)) THEN 1
    ELSE IF ~IsAfter(a.range.start, b.range.start) THEN -1
    ELSE 1

RECURSIVE SearchInsertSorted(_, _)
SearchInsertSorted(sorted, x) ==
    IF sorted = <<>> THEN <<x>>
    ELSE IF CompareSearchLocations(x, Head(sorted)) < 0 THEN <<x>> \o sorted
    ELSE <<Head(sorted)>> \o SearchInsertSorted(Tail(sorted), x)

RECURSIVE SortSearchLocations(_)
SortSearchLocations(arr) ==
    IF arr = <<>> THEN <<>>
    ELSE SearchInsertSorted(SortSearchLocations(SubSeq(arr, 1, Len(arr) - 1)), arr[Len(arr)])

\* The loop of _doResolve over the sorted locations; `fresh` tells that no
\* FileItem was made by this call yet (`last` is undefined).
RECURSIVE DoResolveLoop(_, _, _, _)
DoResolveLoop(items, locations, call, fresh) ==
    IF locations = <<>> THEN items
    ELSE LET loc == Head(locations)
             push == fresh \/ UriToString(items[Len(items)].uri) # UriToString(loc.uri)
             items1 == IF push
                       THEN Append(items, [uri |-> loc.uri, results |-> <<>>, call |-> call])
                       ELSE items
         IN  DoResolveLoop([items1 EXCEPT ![Len(items1)].results = Append(@, loc)],
                           Tail(locations), call, FALSE)

\* _doResolve after the await; `found` is the truth of `if (locations)`
DoResolveRest(r, call, found, locations) ==
    IF found
    THEN [r EXCEPT !.total = Len(locations),
                   !.items = DoResolveLoop(@, SortSearchLocations(locations), call, TRUE),
                   !.calls[call] = "fulfilled"]
    ELSE [r EXCEPT !.calls[call] = "fulfilled"]

SearchLocUniverse ==
    << Loc(FileUri(PathOf(<<"b">>)), Pos(0, 0), Pos(0, 1)),
       Loc(FileUri(PathOf(<<"a">>)), Pos(1, 0), Pos(1, 1)),
       Loc(FileUri(PathOf(<<"a">>)), Pos(0, 0), Pos(0, 1)) >>

\* What a provider call returns: none, one or all of these locations.
SearchLocationLists ==
    {SubSeq(SearchLocUniverse, k, Len(SearchLocUniverse)) :
        k \in 1..(Len(SearchLocUniverse) + 1)}

ResolveInit ==
    /\ rs = NewReferenceSearchModel
    /\ rsLastOp = [op |-> "new", call |-> Undef]

\* Some code reads model.resolve.
AccessResolve ==
    /\ Len(rs.accesses) < MaxAccesses
    /\ Len(ResolveGetter(rs).calls) <= MaxCalls
    /\ LET r == ResolveGetter(rs)
       IN  rs' = [r EXCEPT !.accesses = Append(@, r.resolve)]
    /\ rsLastOp' = [op |-> "resolve", call |-> ResolveGetter(rs).resolve]

\* reset()
Reset ==
    /\ rs' = [rs EXCEPT !.resolve = Undef, !.accesses = <<>>,
                        !.callsAtReset = Len(rs.calls)]
    /\ rsLastOp' = [op |-> "reset", call |-> Undef]

\* A provider call returns, with locations or with undefined.
ProviderReturned ==
    \E call \in 1..Len(rs.calls), found \in BOOLEAN, locations \in SearchLocationLists :
        /\ rs.calls[call] = "pending"
        /\ ~found => locations = <<>>
        /\ rs' = DoResolveRest(rs, call, found, locations)
        /\ rsLastOp' = [op |-> "returned", call |-> call]

\* A provider call fails: the promise of _doResolve is rejected.
ProviderFailed ==
    \E call \in 1..Len(rs.calls) :
        /\ rs.calls[call] = "pending"
        /\ rs' = [rs EXCEPT !.calls[call] = "rejected"]
        /\ rsLastOp' = [op |-> "failed", call |-> call]

\* ------------------------------------------------ ReferenceSearchModel: claims

\* C10: resolve is memoized: all accesses of `resolve` with no reset() between
\* them, also those made while the resolution is pending, return the same
\* promise and cause exactly one provider call; after reset() the next access
\* causes exactly one further call.
C10_ResolveMemoized ==
    /\ \A i, j \in 1..Len(rs.accesses) : rs.accesses[i] = rs.accesses[j]
    /\ rs.accesses # <<>> => rs.resolve = rs.accesses[1]
    /\ Len(rs.calls) = rs.callsAtReset + (IF rs.accesses = <<>> THEN 0 ELSE 1)

\* Two accesses were made after a reset() while their provider call is pending.
C10_Witness ==
    /\ Len(rs.accesses) >= 2
    /\ rs.callsAtReset >= 1
    /\ rs.calls[rs.resolve] = "pending"

\* Every provider call has settled and `resolve` was accessed since the last
\* reset().
AllCallsSettled ==
    /\ rs.resolve # Undef
    /\ \A c \in 1..Len(rs.calls) : rs.calls[c] # "pending"

\* C31: after a reset() during a resolution and a further access of
\* `resolve`, once the provider calls have settled, items is the grouped
\* result of the latest call: every FileItem was made by that call, and there
\* is one FileItem per uri.
C31_ItemsOfLatestCall ==
    (AllCallsSettled /\ rs.callsAtReset >= 1) =>
        /\ \A i \in 1..Len(rs.items) : rs.items[i].call = rs.resolve
        /\ \A i, j \in 1..Len(rs.items) :
              UriToString(rs.items[i].uri) = UriToString(rs.items[j].uri) => i = j

\* The same for a model whose items were all made by one call: one FileItem
\* per uri.
C31_OneCallOneFilePerUri ==
    (\A i, j \in 1..Len(rs.items) : rs.items[i].call = rs.items[j].call) =>
        \A i, j \in 1..Len(rs.items) :
            UriToString(rs.items[i].uri) = UriToString(rs.items[j].uri) => i = j

\* ------------------------------------- SymbolsTree: claims on the history

\* The hashes of the entries of the history.
HistoryHashes(t) == {t.inputs[t.history[k]].hash : k \in 1..Len(t.history)}

\* The last step fulfilled the promise of a re-run input with an empty model,
\* or with a model when the input was not the current one any more.
ReRunWithoutResult ==
    /\ treeLastOp.op = "fulfilled"
    /\ \E r \in tree.reruns : r[1] = treeLastOp.input
    /\ \/ tree.inputs[treeLastOp.input].empty
       \/ IsStale(TreePre, treeLastOp.input)

\* C12: an entry of the input history disappears only through the
\* clear-history command: when an entry is re-run (refind or refresh) and the
\* new search returns no results, or is superseded before it resolves, the
\* entry is still in the history.
C12_ReRunKeepsEntry ==
    ReRunWithoutResult =>
        \A r \in tree.reruns : r[1] = treeLastOp.input => r[2] \in HistoryHashes(tree)

\* The last step fulfilled the promise of the input that was the current one.
CurrentResolved ==
    /\ treeLastOp.op = "fulfilled"
    /\ ~IsStale(TreePre, treeLastOp.input)

\* C13: in setInput, a resolved and non-superseded input is added to the
\* history if and only if its model is not empty; when the model is empty the
\* active input is cleared (getInput() is undefined) and the delegate is
\* switched to the history provider.
C13_AddedIffNotEmpty ==
    CurrentResolved =>
        LET id == treeLastOp.input
            inHistory == \E k \in 1..Len(tree.history) : tree.history[k] = id
        IN  /\ inHistory <=> ~tree.inputs[id].empty
            /\ ~tree.inputs[id].empty =>
                  /\ tree.history[Len(tree.history)] = id
                  /\ tree.input = id
            /\ tree.inputs[id].empty =>
                  /\ tree.history = TreePre.history
                  /\ tree.input = Undef
                  /\ tree.provider = HistoryProvider

\* The current input resolved with an empty model while the history had an
\* entry.
C13_Witness ==
    /\ CurrentResolved
    /\ tree.inputs[treeLastOp.input].empty
    /\ tree.history # <<>>

\* C14: when the provider call of the current input rejects, SymbolsTree ends
\* in the state of an empty result, with no active input and the history
\* provider presented: the rejection does not leave setInput unhandled, and
\* getChildren and getTreeItem of the delegate do not throw afterwards.
C14_RejectionIsNoResult ==
    (treeLastOp.op = "rejected" /\ ~IsStale(TreePre, treeLastOp.input)) =>
        /\ tree.input = Undef
        /\ tree.provider = HistoryProvider
        /\ treeLastOp.input \notin tree.escaped
        /\ AssertProvider(tree)

\* ---------------------------------------------- History (src/src/history.ts)

\* The largest number of History.add calls between two clear() calls.
MaxAdds == 4

VARIABLES
    hist,           \* History._items: the HistoryItems in insertion order
    histLog,        \* the ids added since the last clear(), oldest first
    histLastOp      \* the last call, with the items it was made on

histVars == <<hist, histLog, histLastOp>>

\* HistoryItem.id of the items that are added
HistoryIds == {"id1", "id2", "id3"}

\* Map.delete that deletes nothing.
MapDeleteNothing(items, id) == items

\* this._items.delete(item.id)
MapDelete(items, id) == SelectSeq(items, LAMBDA e : e.id # id)

\* this._items.set(item.id, item), the key being absent
MapSet(items, item) == Append(items, item)

\* History.add(item), and TreeInputHistory.add(input) with input.hash as id
HistoryClassAdd(items, item) == MapSet(MapDelete(items, item.id), item)

\* History.clear()
HistoryClassClear(items) == <<>>

\* History[Symbol.iterator]: the values from the last inserted to the first
\* (TreeInputHistory.getChildren: [...this._inputs.values()].reverse())
RECURSIVE HistoryIterate(_)
HistoryIterate(items) ==
    IF items = <<>> THEN <<>>
    ELSE <<items[Len(items)]>> \o HistoryIterate(SubSeq(items, 1, Len(items) - 1))

HistoryInit ==
    /\ hist = <<>>
    /\ histLog = <<>>
    /\ histLastOp = [op |-> "new", id |-> "", pre |-> <<>>]

\* history.add(item) with a new HistoryItem; `n` tells the items apart
AddToHistory ==
    /\ Len(histLog) < MaxAdds
    /\ \E id \in HistoryIds :
          /\ hist' = HistoryClassAdd(hist, [id |-> id, n |-> Len(histLog) + 1])
          /\ histLog' = Append(histLog, id)
          /\ histLastOp' = [op |-> "add", id |-> id, pre |-> hist]

\* history.clear()
ClearTheHistory ==
    /\ hist' = HistoryClassClear(hist)
    /\ histLog' = <<>>
    /\ histLastOp' = [op |-> "clear", id |-> "", pre |-> hist]

\* ------------------------------------------------------------ History: claims

\* The adds of the log that no later add of the same id follows, the newest
\* first, each with its place in the log.
RECURSIVE LatestAdds(_, _)
LatestAdds(log, n) ==
    IF n = 0 THEN <<>>
    ELSE IF \E k \in (n + 1)..Len(log) : log[k] = log[n] THEN LatestAdds(log, n - 1)
    ELSE <<[id |-> log[n], n |-> n]>> \o LatestAdds(log, n - 1)

MaxShows == 3

VARIABLES
    cv,             \* the state of register(): provider, view, history, models
    cvLastOp        \* the last step, with the history it was taken with

cvVars == <<cv, cvLastOp>>

Directions == {"incoming", "outgoing"}

\* `undefined` where a Call is expected
NoCall == <<"undefined", "">>

\*   models       every CallsModel made, with the state of its `root` promise
\*                and the number of Calls it holds
\*   direction    callsDirection
\*   model        provider.model
\*   hasResults   the context key calls-view.hasResults
\*   message, title    view.message, view.title
\*   revealed     the argument of the last view.reveal
\*   history      History._items, in insertion order
\*   threw        the models whose updateModel ended with an exception
\*   redundant    whether a setModeCommand asked for the direction that
\*                callsDirection had already
NewCallsView ==
    [models |-> <<>>, direction |-> "outgoing", model |-> Undef,
     hasResults |-> FALSE, message |-> "", title |-> "Call Hierarchy",
     revealed |-> NoCall, history |-> <<>>, threw |-> {}, redundant |-> FALSE]

\* updateTitle()
UpdateTitle(c) ==
    [c EXCEPT !.title = IF c.model # Undef
                        THEN IF c.models[c.model].direction = "outgoing"
                             THEN "Call Hierarchy - Calls"
                             ELSE "Call Hierarchy - Callers"
                        ELSE "Call Hierarchy"]

\* updateModel(model) up to `await model.root`
CallsUpdateModelStart(c, model) ==
    UpdateTitle([c EXCEPT !.hasResults = model # Undef, !.message = "",
                          !.model = model])

\* new CallsModel(uri, position, direction)
NewCallsModel(c, anchor, direction) ==
    [c EXCEPT !.models = Append(@, [anchor |-> anchor, direction |-> direction,
                                    state |-> "pending", roots |-> 0])]

\* History._makeId(call, model): whether it returns, and the id; reading
\* call.item of undefined is a TypeError
CallsMakeId(call, model) ==
    IF call = NoCall THEN <<FALSE, <<NoCall, "">>>>
    ELSE <<TRUE, <<call, model.direction>>>>

\* History.add(call, model): whether it returns, and the items after it
CallsHistoryAdd(items, call, model) ==
    LET id == CallsMakeId(call, model)
    IN  IF ~id[1] THEN <<FALSE, items>>
        ELSE <<TRUE, Append(SelectSeq(items, LAMBDA e : e # id[2]), id[2])>>

\* updateModel(model) after `await model.root` has yielded `roots` Calls
CallsUpdateModelRest(c, m, roots) ==
    LET first == IF roots = 0 THEN NoCall ELSE <<"root", c.models[m].anchor>>
        c1 == [c EXCEPT !.revealed = first]
        added == CallsHistoryAdd(c1.history, first, c1.models[m])
    IN  IF ~added[1] THEN [c1 EXCEPT !.threw = @ \cup {m}]
        ELSE [c1 EXCEPT !.history = added[2]]

CallsInit ==
    /\ cv = NewCallsView
    /\ cvLastOp = [op |-> "new", model |-> Undef, history |-> <<>>]

\* showCommand(uri, position)
ShowCommand ==
    /\ Len(cv.models) < MaxShows
    /\ \E anchor \in Anchors :
          /\ cv' = CallsUpdateModelStart(NewCallsModel(cv, anchor, cv.direction),
                                         Len(cv.models) + 1)
          /\ cvLastOp' = [op |-> "show", model |-> Len(cv.models) + 1,
                          history |-> cv.history]

\* setModeCommand(direction): callsDirection.value = direction, then
\* updateModel(model.changeDirection()) on a model, and showCommand() without
\* arguments when there is none (with or without an active editor)
SetModeCommand ==
    /\ Len(cv.models) < MaxShows
    /\ \E direction \in Directions, anchor \in Anchors, editor \in BOOLEAN :
          LET c1 == [cv EXCEPT !.direction = direction,
                               !.redundant = @ \/ direction = cv.direction]
              made == cv.model # Undef \/ editor
              c2 == IF cv.model # Undef
                    THEN NewCallsModel(c1, cv.models[cv.model].anchor,
                                       IF cv.models[cv.model].direction = "incoming"
                                       THEN "outgoing" ELSE "incoming")
                    ELSE IF editor THEN NewCallsModel(c1, anchor, direction)
                    ELSE c1
          IN  /\ cv' = CallsUpdateModelStart(c2, IF made THEN Len(cv.models) + 1
                                                  ELSE Undef)
              /\ cvLastOp' = [op |-> "setMode",
                              model |-> IF made THEN Len(cv.models) + 1 ELSE Undef,
                              history |-> cv.history]

\* clearCommand()
ClearCallsCommand ==
    /\ cv' = [CallsUpdateModelStart(cv, Undef) EXCEPT
                 !.message = IF Len(cv.history) = 0 THEN "To populate this view"
                             ELSE "To populate this view or run a previous search again"]
    /\ cvLastOp' = [op |-> "clear", model |-> Undef, history |-> cv.history]

\* vscode.prepareCallHierarchy returns: the `root` promise of the model is
\* fulfilled and updateModel resumes
RootFulfilled ==
    \E m \in 1..Len(cv.models), roots \in 0..1 :
        /\ cv.models[m].state = "pending"
        /\ cv' = CallsUpdateModelRest([cv EXCEPT !.models[m].state = "fulfilled",
                                                 !.models[m].roots = roots],
                                      m, roots)
        /\ cvLastOp' = [op |-> "root", model |-> m, history |-> cv.history]

\* ------------------------------------------- calls-view controller: claims

\* C15: a call-hierarchy search whose prepare call yields zero root items is
\* handled as 'no results': updateModel completes without throwing and
\* nothing is added to the calls history.
C15_NoRootsIsNoResult ==
    (cvLastOp.op = "root" /\ cv.models[cvLastOp.model].roots = 0) =>
        /\ cvLastOp.model \notin cv.threw
        /\ cv.history = cvLastOp.history

\* C37: after any sequence of show, showOutgoing and showIncoming commands
\* the direction of the model presented in the tree is the direction last
\* requested, the one RichCallsDirection holds; asking for the direction that
\* is active already does not flip the model presented.
C37_PresentedDirectionIsRequested ==
    cv.model # Undef => cv.models[cv.model].direction = cv.direction

\* The same as long as every showOutgoing and showIncoming command asked for
\* the other direction.
C37_OtherDirectionOnly ==
    ~cv.redundant => C37_PresentedDirectionIsRequested

\* -------------------------------------- ModelImpl navigation (src/src/model.ts)

\* A _getSibling that finds no sibling.
NoSibling(item, siblings, delta) == Undef

VARIABLES
    walk            \* a walk over the references with move(): the references
                    \* visited, whether move(true) returned undefined at
                    \* the last of them, and what move(false) returned at the
                    \* first

walkVars == <<walk>>

NoWalk == [visited |-> <<>>, done |-> FALSE, back |-> Undef]

\* _getSibling(item, siblings, delta); indexOf is -1 for an item that is not
\* in the array
GetSibling(item, siblings, delta) ==
    LET nextIndex == (IndexOf(siblings, item) - 1) + delta
    IN  IF nextIndex < 0 \/ nextIndex >= Len(siblings) THEN Undef
        ELSE siblings[nextIndex + 1]

\* FolderItemImpl.firstFile
RECURSIVE FirstFile(_, _)
FirstFile(h, d) ==
    IF Len(h.ffolders[d]) > 0 THEN FirstFile(h, h.ffolders[d][1])
    ELSE IF Len(h.ffiles[d]) > 0 THEN h.ffiles[d][1]
    ELSE Undef

\* FolderItemImpl.lastFile
RECURSIVE LastFile(_, _)
LastFile(h, d) ==
    IF Len(h.ffiles[d]) > 0 THEN Last(h.ffiles[d])
    ELSE IF Len(h.ffolders[d]) > 0 THEN LastFile(h, Last(h.ffolders[d]))
    ELSE Undef

\* FolderItemImpl.firstFolder, lastFolder
FirstFolder(h, d) == IF Len(h.ffolders[d]) > 0 THEN h.ffolders[d][1] ELSE d
LastFolder(h, d) == IF Len(h.ffolders[d]) > 0 THEN Last(h.ffolders[d]) ELSE d

\* FolderItemImpl.nextFile
RECURSIVE FolderNextFile(_, _)
FolderNextFile(h, d) ==
    LET parent == h.fparent[d]
        result == IF parent = Undef THEN Undef
                  ELSE GetSibling(d, h.ffolders[parent], 1)
    IN  IF result # Undef THEN FirstFile(h, FirstFolder(h, result))
        ELSE IF parent = Undef THEN Undef
        ELSE IF Len(h.ffiles[parent]) > 0 THEN h.ffiles[parent][1]
        ELSE FolderNextFile(h, parent)

\* FolderItemImpl.prevFile
RECURSIVE FolderPrevFile(_, _)
FolderPrevFile(h, d) ==
    LET parent == h.fparent[d]
        result == IF parent = Undef THEN Undef
                  ELSE GetSibling(d, h.ffolders[parent], -1)
    IN  IF result # Undef THEN LastFile(h, LastFolder(h, result))
        ELSE IF parent = Undef THEN Undef
        ELSE FolderPrevFile(h, parent)

\* FileItemImpl.next
FileNext(h, f) ==
    LET parent == h.iparent[f]
        result == IF parent = Undef THEN Undef ELSE GetSibling(f, h.ffiles[parent], 1)
    IN  IF result # Undef THEN result
        ELSE IF parent = Undef THEN Undef
        ELSE FolderNextFile(h, parent)

\* FileItemImpl.prev
FilePrev(h, f) ==
    LET parent == h.iparent[f]
        result == IF parent = Undef THEN Undef ELSE GetSibling(f, h.ffiles[parent], -1)
    IN  IF result # Undef THEN result
        ELSE IF parent = Undef THEN Undef
        ELSE IF Len(h.ffolders[parent]) > 0 THEN LastFile(h, Last(h.ffolders[parent]))
        ELSE FolderPrevFile(h, parent)

\* FileItemImpl.firstRef, lastRef: undefined for an empty array
FirstRef(h, f) == IF Len(h.irefs[f]) > 0 THEN h.irefs[f][1] ELSE Undef
LastRef(h, f) == IF Len(h.irefs[f]) > 0 THEN Last(h.irefs[f]) ELSE Undef

\* ReferenceItemImpl.next
RefNext(h, r) ==
    LET parent == h.rparent[r]
        result == IF parent = Undef THEN Undef ELSE GetSibling(r, h.irefs[parent], 1)
        nextFile == FileNext(h, parent)
    IN  IF result # Undef THEN result
        ELSE IF parent = Undef THEN Undef
        ELSE IF nextFile = Undef THEN Undef
        ELSE FirstRef(h, nextFile)

\* ReferenceItemImpl.prev
RefPrev(h, r) ==
    LET parent == h.rparent[r]
        result == IF parent = Undef THEN Undef ELSE GetSibling(r, h.irefs[parent], -1)
        prevFile == FilePrev(h, parent)
    IN  IF result # Undef THEN result
        ELSE IF parent = Undef THEN Undef
        ELSE IF prevFile = Undef THEN Undef
        ELSE LastRef(h, prevFile)

\* ReferenceItemImpl.move(fwd)
RefMove(h, r, fwd) == IF fwd THEN RefNext(h, r) ELSE RefPrev(h, r)

\* The references in the order the tree view shows them: in a folder the
\* subfolders come before the files (getChildren of the provider).
RECURSIVE RefsOfFiles(_, _)
RefsOfFiles(h, files) ==
    IF files = <<>> THEN <<>> ELSE h.irefs[Head(files)] \o RefsOfFiles(h, Tail(files))

RECURSIVE DisplayOrder(_, _)
RECURSIVE DisplayOrderOfFolders(_, _)
DisplayOrder(h, d) ==
    DisplayOrderOfFolders(h, h.ffolders[d]) \o RefsOfFiles(h, h.ffiles[d])
DisplayOrderOfFolders(h, folders) ==
    IF folders = <<>> THEN <<>>
    ELSE DisplayOrder(h, Head(folders)) \o DisplayOrderOfFolders(h, Tail(folders))

\* model.remove(item) on an item of the tree view, before the walk: a walk
\* leaves the model as it is, so every model is walked this way.
RemoveBeforeWalk ==
    /\ walk = NoWalk
    /\ \E kind \in {"reference", "file", "folder"} :
          \E item \in CASE kind = "reference" -> LiveRefs(heap)
                        [] kind = "file" -> LiveFiles(heap)
                        [] kind = "folder" -> LiveFolders(heap) \ {RootId} :
              heap' = RemoveItem(heap, kind, item)
    /\ UNCHANGED <<configuration, supplied, lastOp, walk>>

\* A walk starts at the first reference of the tree view; move(false) is
\* called on it.
WalkStart ==
    /\ walk = NoWalk
    /\ DisplayOrder(heap, RootId) # <<>>
    /\ LET first == DisplayOrder(heap, RootId)[1]
       IN  walk' = [visited |-> <<first>>, done |-> FALSE,
                    back |-> RefMove(heap, first, FALSE)]
    /\ UNCHANGED modelVars

\* move(true) is called on the reference the walk is at.
WalkStep ==
    /\ walk.visited # <<>>
    /\ ~walk.done
    /\ Len(walk.visited) <= MaxLocs
    /\ LET next == RefMove(heap, Last(walk.visited), TRUE)
       IN  walk' = IF next = Undef THEN [walk EXCEPT !.done = TRUE]
                   ELSE [walk EXCEPT !.visited = Append(@, next)]
    /\ UNCHANGED modelVars

\* ------------------------------------------------ ModelImpl navigation: claims

\* C18: in ModelImpl, with and without folders, starting at the first
\* reference in display order (subfolders before files, depth first) and
\* calling move(true) again and again visits every live reference exactly
\* once in display order and then returns undefined; move(false) on the first
\* reference returns undefined.
C18_MoveVisitsAllInOrder ==
    walk.visited # <<>> =>
        LET order == DisplayOrder(heap, RootId)
        IN  /\ Len(walk.visited) <= Len(order)
            /\ walk.visited = SubSeq(order, 1, Len(walk.visited))
            /\ walk.done => walk.visited = order
            /\ walk.back = Undef

\* With folders shown, a walk over three references or more came to its end
\* after an item was removed.
C18_Witness ==
    /\ walk.done
    /\ Len(walk.visited) >= 3
    /\ configuration.showFolders
    /\ heap.fired # <<>>

\* move(fwd) from r, then move(~fwd) from the reference reached, is r again,
\* when move(fwd) is defined.
MoveInverts(h, r, fwd) ==
    RefMove(h, r, fwd) # Undef => RefMove(h, RefMove(h, r, fwd), ~fwd) = r

\* C33: the navigation of ModelImpl is invertible, in flat and in
\* folder-grouping mode: for every live reference r with move(true) defined,
\* r.move(true).move(false) is r, and for every r with move(false) defined,
\* r.move(false).move(true) is r.
C33_MoveInvertible ==
    \A r \in LiveRefs(heap) : MoveInverts(heap, r, TRUE) /\ MoveInverts(heap, r, FALSE)

\* The same without folders.
C33_FlatMode ==
    ~configuration.showFolders => C33_MoveInvertible

\* The same for models in which no folder holds both subfolders and files.
C33_NoMixedFolder ==
    (\A d \in LiveFolders(heap) : Len(heap.ffolders[d]) = 0 \/ Len(heap.ffiles[d]) = 0)
        => C33_MoveInvertible

\* ---------------------------- CallsModel.getCallChildren (src/src/calls/model.ts)

\* The largest number of getCallChildren calls.
MaxGets == 4

VARIABLES
    ci              \* the CallItems and the getCallChildren calls made on them

ciVars == <<ci>>

CallItems == {"c1", "c2"}

\* `undefined`, or an array: the call whose provider result it was made of,
\* and its length
NoArray == <<Undef, 0>>

\*   children     CallItem.children of each item
\*   invoked      how often vscode.provideIncomingCalls / provideOutgoingCalls
\*                was executed for each item
\*   gets         the getCallChildren calls, by call order: the item, where the
\*                call is, and the array it returned
NewCallItems ==
    [children |-> [c \in CallItems |-> NoArray],
     invoked |-> [c \in CallItems |-> 0],
     gets |-> <<>>]

\* getCallChildren(call) up to its await, or to its return when
\* call.children is set
GetCallChildrenStart(s, call) ==
    IF s.children[call] = NoArray
    THEN [s EXCEPT !.invoked[call] = @ + 1,
                   !.gets = Append(@, [item |-> call, state |-> "pending",
                                       returned |-> NoArray])]
    ELSE [s EXCEPT !.gets = Append(@, [item |-> call, state |-> "fulfilled",
                                       returned |-> s.children[call]])]

\* getCallChildren(call) after `await this._resolveCalls(call)`, which made
\* a new array of `n` CallItems for the get `g`
GetCallChildrenRest(s, g, n) ==
    LET call == s.gets[g].item
        s1 == [s EXCEPT !.children[call] = <<g, n>>]
    IN  [s1 EXCEPT !.gets[g].state = "fulfilled",
                   !.gets[g].returned = s1.children[call]]

CallItemsInit == ci = NewCallItems

\* The tree view, navigation or a command asks for the children of an item.
GetCallChildren ==
    /\ Len(ci.gets) < MaxGets
    /\ \E call \in CallItems : ci' = GetCallChildrenStart(ci, call)

\* The provider answers with n calls (or none at all: the empty array).
CallsProvided ==
    \E g \in 1..Len(ci.gets), n \in 0..1 :
        /\ ci.gets[g].state = "pending"
        /\ ci' = GetCallChildrenRest(ci, g, n)

\* The provider fails: _resolveCalls and getCallChildren are rejected.
CallsFailed ==
    \E g \in 1..Len(ci.gets) :
        /\ ci.gets[g].state = "pending"
        /\ ci' = [ci EXCEPT !.gets[g].state = "rejected"]

\* --------------------------------------------- getCallChildren: claims

\* C20: for any CallItem, whatever the interleaving of the getCallChildren
\* calls (two calls made before the first resolves included), the provider
\* is invoked at most once for the item, and every caller receives the array
\* that ends up stored in item.children.
C20_ChildrenResolvedOnce ==
    /\ \A c \in CallItems : ci.invoked[c] <= 1
    /\ (\A g \in 1..Len(ci.gets) : ci.gets[g].state # "pending") =>
          \A g \in 1..Len(ci.gets) :
              ci.gets[g].state = "fulfilled" =>
                  ci.gets[g].returned = ci.children[ci.gets[g].item]

\* C20 when the provider does not fail.
C20_WithoutFailure ==
    (\A g \in 1..Len(ci.gets) : ci.gets[g].state # "rejected") => C20_ChildrenResolvedOnce

\* ------------------- CallsModel navigation (src/src/calls/model.ts, next/previous)

\* The largest number of CallItems of one CallsModel.
MaxCallItems == 5

VARIABLES
    cn              \* one CallsModel, its CallItems and the last next/previous

cnVars == <<cn>>

CallIds == 1..MaxCallItems

\* CallItem.children when getCallChildren has not set it
NoChildren == [set |-> FALSE, items |-> <<>>]

NoCallNav == [op |-> "none", from |-> Undef, result |-> Undef]

\* new CallsModel(direction, items) for n items.  CallItems are numbered in
\* the order they are created:
\*   created      how many CallItems there are
\*   roots        CallsModel.roots
\*   parent       CallItem.parent (Undef for a root)
\*   children     CallItem.children
\*   nav          the last next/previous call, and what it returned
NewCallsNavModel(n) ==
    [created |-> n,
     roots |-> [i \in 1..n |-> i],
     parent |-> [c \in CallIds |-> Undef],
     children |-> [c \in CallIds |-> NoChildren],
     nav |-> NoCallNav]

\* getCallChildren(call) when the provider answers with n calls:
\* `calls.map(item => new CallItem(item.from, call, ...))`
CallsSetChildren(m, call, n) ==
    [m EXCEPT !.created = @ + n,
              !.parent = [c \in CallIds |->
                             IF c \in (m.created + 1)..(m.created + n) THEN call ELSE @[c]],
              !.children[call] = [set |-> TRUE,
                                  items |-> [i \in 1..n |-> m.created + i]]]

\* Array.prototype.indexOf: 0-based, -1 when absent
JsIndexOf(arr, x) == IndexOf(arr, x) - 1

\* array[i] of JavaScript: `undefined` outside of the array
JsAt(arr, i) == IF i >= 0 /\ i < Len(arr) THEN arr[i + 1] ELSE Undef

\* CallsModel._move(item, fwd); Undef is `undefined`.
\*   `roots.indexOf(item) ? roots : item.parent?.children`: the number is used
\*   as the condition, so 0 selects item.parent?.children and -1 selects roots;
\*   `idx + 1 % array.length` is idx + (1 % array.length), and
\*   `idx + -1 + array.length % array.length` is idx - 1 + 0.
CallsMove(m, item, fwd) ==
    LET array == IF JsIndexOf(m.roots, item) # 0
                 THEN [set |-> TRUE, items |-> m.roots]
                 ELSE IF m.parent[item] = Undef THEN NoChildren
                 ELSE m.children[m.parent[item]]
        len == Len(array.items)
        idx == JsIndexOf(array.items, item)
    IN  IF ~array.set \/ len = 0 THEN Undef
        ELSE IF fwd THEN JsAt(array.items, idx + (1 % len))
        ELSE JsAt(array.items, idx + (-1) + (len % len))

\* CallsModel.next(from): `this._move(from, true) ?? from`
CallsNext(m, from) ==
    IF CallsMove(m, from, TRUE) = Undef THEN from ELSE CallsMove(m, from, TRUE)

\* CallsModel.previous(from): `this._move(from, false) ?? from`
CallsPrevious(m, from) ==
    IF CallsMove(m, from, FALSE) = Undef THEN from ELSE CallsMove(m, from, FALSE)

\* CallsModel.remove(item)
CallsRemoveItem(m, item) ==
    IF IndexOf(m.roots, item) # 0
    THEN [m EXCEPT !.roots = Del(@, item)]
    ELSE IF m.parent[item] # Undef /\ m.children[m.parent[item]].set
    THEN [m EXCEPT !.children[m.parent[item]].items = Del(@, item)]
    ELSE m

\* The items the tree shows: the roots and the children of shown items.
RECURSIVE CallsShownFrom(_, _, _)
CallsShownFrom(m, items, fuel) ==
    IF fuel = 0 THEN items
    ELSE CallsShownFrom(m, items \cup {c \in CallIds : \E p \in items :
                                          IndexOf(m.children[p].items, c) # 0},
                        fuel - 1)

CallsShown(m) == CallsShownFrom(m, {m.roots[i] : i \in 1..Len(m.roots)}, MaxCallItems)

CallsNavInit == \E n \in 0..3 : cn = NewCallsNavModel(n)

\* The tree view expands a shown item and the provider answers with n calls.
CallsExpand ==
    \E call \in CallsShown(cn), n \in 0..2 :
        /\ cn.nav = NoCallNav
        /\ ~cn.children[call].set
        /\ cn.created + n <= MaxCallItems
        /\ cn' = CallsSetChildren(cn, call, n)

\* The user dismisses a shown item.
CallsRemove ==
    \E item \in CallsShown(cn) :
        /\ cn.nav = NoCallNav
        /\ cn' = CallsRemoveItem(cn, item)

\* "Go to next" on a shown item
CallsGoNext ==
    \E from \in CallsShown(cn) :
        /\ cn.nav = NoCallNav
        /\ cn' = [cn EXCEPT !.nav = [op |-> "next", from |-> from,
                                     result |-> CallsNext(cn, from)]]

\* "Go to previous" on a shown item
CallsGoPrevious ==
    \E from \in CallsShown(cn) :
        /\ cn.nav = NoCallNav
        /\ cn' = [cn EXCEPT !.nav = [op |-> "previous", from |-> from,
                                     result |-> CallsPrevious(cn, from)]]

\* ------------------------------------------- CallsModel navigation: claims

\* the list that contains the item: roots for a root, parent.children for a child
CallsSiblings(m, item) ==
    IF IndexOf(m.roots, item) # 0 THEN m.roots ELSE m.children[m.parent[item]].items

\* the adjacent sibling of the item, or the item itself when there is none
CallsAdjacent(m, item, delta) ==
    LET list == CallsSiblings(m, item)
        k == IndexOf(list, item) + delta
    IN  IF k >= 1 /\ k <= Len(list) THEN list[k] ELSE item

\* C21: next(item) and previous(item) return the adjacent sibling in the list
\* that contains the item (roots for a root, parent.children for a child), or
\* the item itself when there is no such sibling: a root at index 0 with a
\* following root moves to that root, and a child never yields a root.
C21_AdjacentSibling ==
    /\ cn.nav.op = "next" => cn.nav.result = CallsAdjacent(cn, cn.nav.from, 1)
    /\ cn.nav.op = "previous" => cn.nav.result = CallsAdjacent(cn, cn.nav.from, -1)

\* C21, its second half: a child item never yields a root item.
C21_ChildStaysBelowRoots ==
    (cn.nav.op # "none" /\ cn.parent[cn.nav.from] # Undef) =>
        IndexOf(cn.roots, cn.nav.result) = 0

\* C21 for the roots after the first and backwards: the one case the code
\* gets right going forward is a root that is neither first nor last.
C21_LaterRoots ==
    (cn.nav.op # "none" /\ IndexOf(cn.roots, cn.nav.from) > 1) => C21_AdjacentSibling

\* ----------- call-hierarchy direction (src/src/calls/index.ts, CallsTreeInput)

\* The largest number of inputs given to the tree, and of CallItems made.
MaxDirInputs == 2
MaxDirItems == 4

VARIABLES
    cd              \* the direction, the tree's input and session, the CallItems

cdVars == <<cd>>

CallsDirections == {"incoming", "outgoing"}
\* the places the active editor can be at: uri and position
DirAnchors == {<<"/a", 1>>, <<"/b", 2>>}
DirItemIds == 1..MaxDirItems

\*   direction    RichCallsDirection.value
\*   inputs       the inputs given to tree.setInput, in order; of each input:
\*     kind, uri, position, direction   the CallsTreeInput (or an input of
\*                  another kind, "references")
\*     state      where its resolve() is: "pending", "fulfilled", "rejected"
\*     prepared   how often resolve() executed vscode.prepareCallHierarchy
\*     roots      CallsModel.roots of the model it resolved to
\*     from, requested   when setCallsDirection made it: the input that was
\*                  the tree's then, and the direction asked for
\*   input        SymbolsTree._input (an index into inputs, Undef for none)
\*   session      the input whose model the tree shows (_sessionDisposable
\*                made and not disposed), Undef for none
\*   created, owner, children   the CallItems: how many there are, the input
\*                  whose model each belongs to, CallItem.children
NewDirState(direction) ==
    [direction |-> direction,
     inputs |-> <<>>,
     input |-> Undef,
     session |-> Undef,
     created |-> 0,
     owner |-> [c \in DirItemIds |-> Undef],
     children |-> [c \in DirItemIds |-> NoChildren]]

\* new CallsTreeInput(uri, position, direction)
NewCallsTreeInput(uri, position, direction) ==
    [kind |-> "calls", uri |-> uri, position |-> position, direction |-> direction,
     state |-> "pending", prepared |-> 0, roots |-> <<>>,
     from |-> Undef, requested |-> "none"]

\* An input made for the old one that keeps the old direction.
SwitchedInputSameDirection(old, value) ==
    NewCallsTreeInput(old.uri, old.position, old.direction)

\* setCallsDirection: `new CallsTreeInput(input.uri, input.position, direction.value)`
SwitchedInput(old, value) == NewCallsTreeInput(old.uri, old.position, value)

\* SymbolsTree.setInput(input) up to `await modelPromise`: the input becomes
\* the tree's, the session is disposed, input.resolve() starts and executes
\* vscode.prepareCallHierarchy.
DirSetInput(s, input) ==
    [s EXCEPT !.inputs = Append(@, [input EXCEPT !.prepared = @ + 1]),
              !.input = Len(s.inputs) + 1,
              !.session = Undef]

\* SymbolsTree.clearInput()
DirClearInput(s) == [s EXCEPT !.input = Undef, !.session = Undef]

\* CallsTreeInput.resolve() after its await, for n prepared items:
\* `new CallsModel(this.direction, items ?? [])` makes n CallItems.
DirResolve(s, i, n) ==
    [s EXCEPT !.created = @ + n,
              !.owner = [c \in DirItemIds |->
                            IF c \in (s.created + 1)..(s.created + n) THEN i ELSE @[c]],
              !.inputs[i].state = "fulfilled",
              !.inputs[i].roots = [k \in 1..n |-> s.created + k]]

\* SymbolsTree.setInput(input) after `await modelPromise`
DirSetInputRest(s, i) ==
    IF s.input # i THEN s
    ELSE IF s.inputs[i].roots = <<>> THEN DirClearInput(s)
    ELSE [s EXCEPT !.session = i]

\* getCallChildren(call) when the provider answers with n calls
DirSetChildren(s, call, n) ==
    [s EXCEPT !.created = @ + n,
              !.owner = [c \in DirItemIds |->
                            IF c \in (s.created + 1)..(s.created + n)
                            THEN s.owner[call] ELSE @[c]],
              !.children[call] = [set |-> TRUE,
                                  items |-> [k \in 1..n |-> s.created + k]]]

\* The CallItems reachable from the model of input i
RECURSIVE DirReachFrom(_, _, _)
DirReachFrom(s, items, fuel) ==
    IF fuel = 0 THEN items
    ELSE DirReachFrom(s, items \cup {c \in DirItemIds : \E p \in items :
                                        IndexOf(s.children[p].items, c) # 0},
                      fuel - 1)

DirReachable(s, i) ==
    DirReachFrom(s, {s.inputs[i].roots[k] : k \in 1..Len(s.inputs[i].roots)}, MaxDirItems)

DirInit == \E direction \in CallsDirections : cd = NewDirState(direction)

\* references-view.showCallHierarchy with an active editor
ShowCallHierarchy ==
    \E anchor \in DirAnchors :
        /\ Len(cd.inputs) < MaxDirInputs
        /\ cd' = DirSetInput(cd, NewCallsTreeInput(anchor[1], anchor[2], cd.direction))

\* Another command gives the tree an input that is no CallsTreeInput.
ShowOtherInput ==
    /\ Len(cd.inputs) < MaxDirInputs
    /\ cd' = DirSetInput(cd, [NewCallsTreeInput("/a", 1, "none")
                                 EXCEPT !.kind = "references"])

\* references-view.showOutgoingCalls / showIncomingCalls
SetCallsDirection ==
    \E value \in CallsDirections :
        LET s1 == [cd EXCEPT !.direction = value]
        IN  IF cd.input # Undef /\ cd.inputs[cd.input].kind = "calls"
            THEN /\ Len(cd.inputs) < MaxDirInputs
                 /\ cd' = DirSetInput(s1, [SwitchedInput(cd.inputs[cd.input], s1.direction)
                                              EXCEPT !.from = cd.input,
                                                     !.requested = value])
            ELSE cd' = s1

\* vscode.prepareCallHierarchy answers for input i with n items (one symbol
\* at the position, or none).
DirPrepared ==
    \E i \in 1..Len(cd.inputs), n \in 0..1 :
        /\ cd.inputs[i].state = "pending"
        /\ cd.created + n <= MaxDirItems
        /\ cd' = DirSetInputRest(DirResolve(cd, i, n), i)

\* vscode.prepareCallHierarchy fails for input i: resolve() and setInput reject.
DirPrepareFailed ==
    \E i \in 1..Len(cd.inputs) :
        /\ cd.inputs[i].state = "pending"
        /\ cd' = [cd EXCEPT !.inputs[i].state = "rejected"]

\* The tree view expands an item of the session; the provider answers with n calls.
DirExpand ==
    \E n \in 0..1 :
        /\ cd.session # Undef
        /\ cd.created + n <= MaxDirItems
        /\ \E call \in DirReachable(cd, cd.session) :
              /\ ~cd.children[call].set
              /\ cd' = DirSetChildren(cd, call, n)

\* ------------------------------------------ call-hierarchy direction: claims

DirSwitched(i) == cd.inputs[i].from # Undef

\* C22: switching the direction while a call-hierarchy session is active
\* replaces it by a new session with the same anchor uri and position and
\* the requested direction, whose roots come from a fresh prepare call; no
\* CallItem and no cached children of the old session are reachable from
\* the new session.
C22_SwitchRebuildsFresh ==
    /\ cd.session # Undef => cd.session = cd.input
    /\ \A i \in 1..Len(cd.inputs) :
          DirSwitched(i) =>
              LET new == cd.inputs[i]
                  old == cd.inputs[new.from]
              IN  /\ new.kind = "calls"
                  /\ new.uri = old.uri
                  /\ new.position = old.position
                  /\ new.direction = new.requested
                  /\ new.prepared = 1
                  /\ \A c \in DirReachable(cd, i) :
                        /\ cd.owner[c] = i
                        /\ c \notin DirReachable(cd, new.from)

\* The session was made by a switch to the other direction, from a session
\* that had roots and cached children, and has cached children of its own.
C22_Witness ==
    /\ cd.session # Undef
    /\ DirSwitched(cd.session)
    /\ LET new == cd.inputs[cd.session]
           old == cd.inputs[new.from]
       IN  /\ new.direction # old.direction
           /\ \E r \in DirReachable(cd, new.from) : cd.children[r].items # <<>>
           /\ \E r \in DirReachable(cd, cd.session) : cd.children[r].items # <<>>

\* ------- ReferenceItem.getDocument of LocationsModel (src/src/inputs/locations.ts)

\* The largest number of getDocument calls.
MaxDocCalls == 2

VARIABLES
    gd              \* one LocationsModel, the documents asked for and opened

gdVars == <<gd>>

\* The results of a search: one location, or two.
DocLocationLists == {l \in FlatLocationLists : Len(l) \in 1..2}

\*   m            the LocationsModel and its items
\*   document     ReferenceItem._document of each reference: the number of
\*                the openTextDocument call whose thenable it holds, Undef
\*                for `undefined`
\*   opens        the vscode.workspace.openTextDocument calls, in order: the
\*                uri and whether the thenable is "pending", "opened", "failed"
\*   calls        the getDocument calls, in order: the reference, warmUpNext,
\*                whether the call threw, and the thenable it returned
NewDocState(locations) ==
    LET m == NewFlatModel(locations)
    IN  [m |-> m,
         document |-> [r \in 1..Len(m.rloc) |-> Undef],
         opens |-> <<>>,
         calls |-> <<>>]

\* LocationsModel.next(item) for a FileItem; Undef is `undefined`.
\*   `idx + 1 % this._items.length` is idx + (1 % length); with no items the
\*   remainder is NaN and the element read is `undefined`.
LocationsNextFile(m, file) ==
    LET len == Len(m.items)
        idx == JsIndexOf(m.items, file)
    IN  IF len = 0 THEN Undef ELSE JsAt(m.items, idx + (1 % len))

\* vscode.workspace.openTextDocument(uri)
OpenTextDocument(s, uri) ==
    [s EXCEPT !.opens = Append(@, [uri |-> uri, state |-> "pending"])]

\* ReferenceItem.getDocument(warmUpNext) of the reference `ref`.  Reading
\* `next.uri` of `undefined` throws a TypeError, which rejects the call.
GetDocumentOf(s, ref, warmUpNext) ==
    LET s1 == IF s.document[ref] = Undef
              THEN [OpenTextDocument(s, s.m.rloc[ref].uri)
                       EXCEPT !.document[ref] = Len(s.opens) + 1]
              ELSE s
        file == s.m.rfile[ref]
        next == LocationsNextFile(s.m, file)
        threw == warmUpNext /\ next # file /\ next = Undef
        s2 == IF warmUpNext /\ next # file /\ next # Undef
              THEN OpenTextDocument(s1, s.m.furi[next])
              ELSE s1
    IN  [s2 EXCEPT !.calls = Append(@, [ref |-> ref, warmUpNext |-> warmUpNext,
                                        threw |-> threw,
                                        returned |-> IF threw THEN Undef
                                                     ELSE s1.document[ref]])]

DocInit == \E locations \in DocLocationLists : gd = NewDocState(locations)

\* An item is dismissed before any document is asked for.
DocRemove ==
    \E item \in FlatItems(gd.m) :
        /\ gd.calls = <<>>
        /\ gd' = [gd EXCEPT !.m = FlatRemoveItem(gd.m, item[1], item[2])]

\* The preview or a command asks for the document of a reference (one the
\* model holds, or one dismissed before).
GetDocument ==
    \E ref \in 1..Len(gd.m.rloc), warmUpNext \in BOOLEAN :
        /\ Len(gd.calls) < MaxDocCalls
        /\ gd' = GetDocumentOf(gd, ref, warmUpNext)

\* The editor has opened a document, or failed to.
DocOpenSettled ==
    \E k \in 1..Len(gd.opens), state \in {"opened", "failed"} :
        /\ gd.opens[k].state = "pending"
        /\ gd' = [gd EXCEPT !.opens[k].state = state]

\* ------------------------------------------- LocationsModel.getDocument: claims

\* C24: getDocument(true) never throws or rejects because of the warm-up of
\* the next file: for every reference of every file (the last file of a
\* multi-file result included) it resolves to the reference's own document
\* whenever opening that document succeeds.
C24_WarmUpNeverFails ==
    \A c \in 1..Len(gd.calls) :
        LET call == gd.calls[c]
        IN  /\ ~call.threw
            /\ call.returned = gd.document[call.ref]
            /\ gd.opens[call.returned].uri = gd.m.rloc[call.ref].uri

\* C24 for the references that are not in the last file of the model.
C24_NotTheLastFile ==
    \A c \in 1..Len(gd.calls) :
        LET call == gd.calls[c]
            file == gd.m.rfile[call.ref]
        IN  (IndexOf(gd.m.items, file) \in 1..(Len(gd.m.items) - 1)
                \/ (Len(gd.m.items) = 1 /\ gd.m.items[1] = file)
                \/ ~call.warmUpNext) =>
                /\ ~call.threw
                /\ call.returned = gd.document[call.ref]
                /\ gd.opens[call.returned].uri = gd.m.rloc[call.ref].uri

\* --------------------- FileItemImpl.getDocument (src/src/model.ts, ModelImpl)

\* The largest number of getDocument calls made by the view and commands.
MaxFileCalls == 3

VARIABLES
    fd              \* one ModelImpl, the documents asked for and opened

fdVars == <<fd>>

\* The results of a search: two of the locations below /r/a/b/c and /r, in
\* one file or in two.
FileDocLocationLists == {Pick(idx, 1) : idx \in {x \in SUBSET (5..8) : Cardinality(x) = 2}}

\*   h            the objects of the ModelImpl
\*   document     FileItemImpl._document of each file: the number of the
\*                openTextDocument call whose thenable it holds, Undef for
\*                `undefined`
\*   opens        the vscode.workspace.openTextDocument calls, in order: the
\*                uri, whether the thenable is "pending", "opened" or
\*                "failed", the references whose file is to be warmed up
\*                once it has resolved (the `then` callbacks of getDocument),
\*                and who made the call
\*   calls        how many getDocument calls the view and commands made
\*   returned     the thenables these calls returned, for each file
NewFileDocState(locations, config) ==
    LET h == NewModelImpl(locations, config)
    IN  [h |-> h,
         document |-> [f \in Files(h) |-> Undef],
         opens |-> <<>>,
         calls |-> 0,
         returned |-> [f \in Files(h) |-> {}]]

\* A getDocument that opens the document whatever _document holds.
DocumentMissingAlways(s, file) == TRUE

\* `!this._document` of FileItemImpl.getDocument
DocumentMissing(s, file) == s.document[file] = Undef

\* FileItemImpl.move(fwd)
FileMove(h, file, fwd) ==
    IF fwd
    THEN IF FileNext(h, file) = Undef THEN Undef ELSE FirstRef(h, FileNext(h, file))
    ELSE IF FilePrev(h, file) = Undef THEN Undef ELSE LastRef(h, FilePrev(h, file))

\* FileItemImpl.getDocument(false): the first statement of getDocument;
\* `caller` is "view" or, for the call of a `then` callback, "warmUp".
FileOpenDocument(s, file, caller) ==
    IF DocumentMissing(s, file)
    THEN [s EXCEPT !.opens = Append(@, [uri |-> s.h.iuri[file], state |-> "pending",
                                        warmUp |-> <<>>, caller |-> caller]),
                   !.document[file] = Len(s.opens) + 1]
    ELSE s

\* The `then` callbacks of getDocument, run for the references `items`:
\* `parent.getDocument(false)` for each item that still has a parent.
RECURSIVE RunWarmUps(_, _)
RunWarmUps(s, items) ==
    IF items = <<>> THEN s
    ELSE LET parent == s.h.rparent[Head(items)]
         IN  RunWarmUps(IF parent # Undef THEN FileOpenDocument(s, parent, "warmUp") ELSE s,
                        Tail(items))

\* FileItemImpl.getDocument(warmUpNext).  A callback given to a thenable that
\* has resolved already runs as soon as the caller returns.
FileGetDocument(s, file, warmUpNext) ==
    LET s1 == FileOpenDocument(s, file, "view")
        k == s1.document[file]
        item == FileMove(s1.h, file, TRUE)
        s2 == IF warmUpNext /\ item # Undef
              THEN IF s1.opens[k].state = "opened" THEN RunWarmUps(s1, <<item>>)
                   ELSE [s1 EXCEPT !.opens[k].warmUp = Append(@, item)]
              ELSE s1
    IN  [s2 EXCEPT !.calls = @ + 1, !.returned[file] = @ \cup {k}]

FileDocInit ==
    \E locations \in FileDocLocationLists, config \in Configurations :
        fd = NewFileDocState(locations, config)

\* The preview or a command asks for the document of a file (one of the
\* tree, or one dismissed before).
FileDocGet ==
    \E file \in Files(fd.h), warmUpNext \in BOOLEAN :
        /\ fd.calls < MaxFileCalls
        /\ fd' = FileGetDocument(fd, file, warmUpNext)

\* The editor has opened document k: the thenable resolves and its
\* callbacks run.
FileDocOpened ==
    \E k \in 1..Len(fd.opens) :
        /\ fd.opens[k].state = "pending"
        /\ fd' = RunWarmUps([fd EXCEPT !.opens[k].state = "opened",
                                       !.opens[k].warmUp = <<>>],
                            fd.opens[k].warmUp)

\* The editor fails to open document k: the thenable is rejected, the
\* callbacks are dropped.
FileDocFailed ==
    \E k \in 1..Len(fd.opens) :
        /\ fd.opens[k].state = "pending"
        /\ fd' = [fd EXCEPT !.opens[k].state = "failed", !.opens[k].warmUp = <<>>]

\* An item of the tree is dismissed.
FileDocRemove ==
    \E kind \in {"reference", "file", "folder"} :
        \E item \in (IF kind = "reference" THEN LiveRefs(fd.h)
                     ELSE IF kind = "file" THEN LiveFiles(fd.h)
                     ELSE LiveFolders(fd.h) \ {RootId}) :
            fd' = [fd EXCEPT !.h = RemoveItem(fd.h, kind, item)]

\* ------------------------------------------- FileItemImpl.getDocument: claims

OpensOf(file) == {k \in 1..Len(fd.opens) : fd.opens[k].uri = fd.h.iuri[file]}

\* C25: for a FileItemImpl, over any sequence of getDocument calls (with or
\* without warmUpNext, on that file or on the file preceding it in forward
\* order), the document-open call for the file's uri is issued at most once
\* and every caller of the file's getDocument receives the same handle.
C25_DocumentOpenedOnce ==
    \A file \in Files(fd.h) :
        /\ Cardinality(OpensOf(file)) <= 1
        /\ fd.returned[file] \subseteq {fd.document[file]}

\* A file was warmed up by a call on the file before it, once that file's
\* document had opened, and was asked for afterwards.
C25_Witness ==
    \E file, before \in Files(fd.h) :
        /\ fd.returned[before] = {1} /\ fd.opens[1].state = "opened"
        /\ fd.returned[file] = {2} /\ fd.opens[2].caller = "warmUp"
        /\ fd.calls = 3

\* ------------------------------ EditorHighlights (src/src/editorHighlights.ts)

\* The largest number of setModel calls with a model.
MaxSetModels == 2

VARIABLES
    eh              \* one EditorHighlights, the models, the editor

ehVars == <<eh>>

\* The documents of the workspace
HlDocuments == {FileUri(PathOf(<<"a">>)), FileUri(PathOf(<<"b">>))}

\* The uris of the FileItems of a model, in the order of model.items
HlModels ==
    { <<FileUri(PathOf(<<"a">>))>>, <<FileUri(PathOf(<<"b">>))>>,
      <<FileUri(PathOf(<<"a">>)), FileUri(PathOf(<<"b">>))>> }

\* A FileItem is <<model, index in model.items>>; `undefined` is <<0, 0>>.
HlNoItem == <<Undef, Undef>>

\* no active editor
HlNoEditor == [path |-> <<>>, fragment |-> <<>>]

\*   models       the models made so far: for each the uris of its FileItems
\*   model        EditorHighlights._model (a number of `models`, or Undef)
\*   listener     the model the listener of _modelListener was made for, or
\*                Undef when there is no listener (none made, or disposed)
\*   ignore       EditorHighlights._ignore
\*   editor       the document of vscode.window.activeTextEditor
\*   decorations  for the editor of each document, what setDecorations set
\*                last: HlNoItem for no ranges, or the FileItem whose
\*                reference ranges were set
\*   changed      the documents changed since the last setModel
\*   last         the last call of a method, and the FileItem whose ranges
\*                it passed to setDecorations (HlNoItem when it passed none)
NewEditorHighlights ==
    [models |-> <<>>,
     model |-> Undef,
     listener |-> Undef,
     ignore |-> {},
     editor |-> HlNoEditor,
     decorations |-> [doc \in HlDocuments |-> HlNoItem],
     changed |-> {},
     last |-> [op |-> "new", applied |-> HlNoItem]]

\* Model.get(uri) of the model numbered m
HlModelGet(s, m, uri) ==
    LET items == s.models[m]
        hits == {i \in 1..Len(items) : UriToString(items[i]) = UriToString(uri)}
    IN  IF hits = {} THEN HlNoItem
        ELSE <<m, CHOOSE i \in hits : \A j \in hits : i <= j>>

\* An ignore list that holds nothing.
HlIgnoreHasNothing(s, item) == FALSE

\* `this._ignore.has(item)`
HlIgnoreHas(s, item) == item \in s.ignore

\* EditorHighlights.show()
HlShowIn(s) ==
    IF s.editor = HlNoEditor \/ s.model = Undef THEN s
    ELSE LET item == HlModelGet(s, s.model, s.editor)
         IN  IF item # HlNoItem /\ ~HlIgnoreHas(s, item)
             THEN [s EXCEPT !.decorations[s.editor] = item,
                            !.last.applied = item]
             ELSE s

\* EditorHighlights.hide()
HlHideIn(s) ==
    IF s.editor # HlNoEditor THEN [s EXCEPT !.decorations[s.editor] = HlNoItem] ELSE s

\* EditorHighlights.setModel(model) for a new model of the files `uris`
HlSetModelTo(s, uris) ==
    LET m == Len(s.models) + 1
        s1 == [s EXCEPT !.models = Append(@, uris), !.model = m, !.ignore = {},
                        !.listener = Undef, !.changed = {},
                        !.last = [op |-> "setModel", applied |-> HlNoItem]]
    IN  [HlShowIn(s1) EXCEPT !.listener = m]

\* EditorHighlights.setModel(undefined)
HlSetModelToUndefined(s) ==
    HlHideIn([s EXCEPT !.model = Undef, !.ignore = {}, !.listener = Undef,
                       !.changed = {},
                       !.last = [op |-> "setModel", applied |-> HlNoItem]])

EditorHighlightsInit == eh = NewEditorHighlights

\* A search has results: setModel(model)
HlSetModel ==
    \E uris \in HlModels :
        /\ Len(eh.models) < MaxSetModels
        /\ eh' = HlSetModelTo(eh, uris)

\* The results are cleared: setModel(undefined)
HlClearModel == eh' = HlSetModelToUndefined(eh)

\* The view becomes visible or the active editor changed: show()
HlShow == eh' = HlShowIn([eh EXCEPT !.last = [op |-> "show", applied |-> HlNoItem]])

\* The view is hidden: hide()
HlHide == eh' = HlHideIn([eh EXCEPT !.last = [op |-> "hide", applied |-> HlNoItem]])

\* An item was removed: refresh()
HlRefresh ==
    eh' = HlShowIn(HlHideIn([eh EXCEPT !.last = [op |-> "refresh", applied |-> HlNoItem]]))

\* The user switches to the editor of another document, or closes the last.
HlEditorChanged ==
    \E doc \in HlDocuments \cup {HlNoEditor} :
        /\ doc # eh.editor
        /\ eh' = [eh EXCEPT !.editor = doc, !.last = [op |-> "editor", applied |-> HlNoItem]]

\* A document is edited: onDidChangeTextDocument fires and the listener of
\* setModel, if there is one, runs.
HlTextChanged ==
    \E doc \in HlDocuments :
        eh' = [eh EXCEPT !.ignore = IF eh.listener = Undef THEN @
                                    ELSE @ \cup {HlModelGet(eh, eh.listener, doc)},
                         !.changed = @ \cup {doc},
                         !.last = [op |-> "textChanged", applied |-> HlNoItem]]

\* --------------------------------------------------- EditorHighlights: claims

HlUriOf(item) == eh.models[item[1]][item[2]]

\* C26: after a text-change event for a document that has a FileItem in the
\* current model, show() and refresh() never apply that file's reference
\* ranges as decorations again until setModel is called; refresh() on that
\* document leaves the editor without decorations.
C26_NoHighlightsAfterEdit ==
    /\ (eh.last.op \in {"show", "refresh"} /\ eh.last.applied # HlNoItem) =>
          HlUriOf(eh.last.applied) \notin eh.changed
    /\ (/\ eh.last.op = "refresh"
        /\ eh.editor \in eh.changed
        /\ eh.model # Undef
        /\ HlModelGet(eh, eh.model, eh.editor) # HlNoItem) =>
          eh.decorations[eh.editor] = HlNoItem

\* refresh() was called in the editor of a changed document with results.
C26_Witness ==
    /\ eh.last.op = "refresh"
    /\ eh.editor \in eh.changed
    /\ eh.model # Undef
    /\ HlModelGet(eh, eh.model, eh.editor) # HlNoItem
    /\ eh.decorations[eh.editor] = HlNoItem

\* ------------------ EditorHighlights, asynchronous (src/unnamed/part_008)

\* The largest number of setModel calls with a model.
MaxAsyncSetModels == 2

\* The largest number of calls that wait for the items of a model.
MaxWaiting == 2

VARIABLES
    ah              \* one EditorHighlights, the models, the editor

ahVars == <<ah>>

\*   models       the ReferencesModels made so far: for each the uris of its
\*                FileItems and whether its `items` promise is "pending",
\*                "fulfilled" or "rejected"
\*   model        EditorHighlights._model (a number of `models`, or Undef)
\*   listener     the model the listener of _listener was made for, or Undef
\*   ignore       EditorHighlights._ignore
\*   editor       the document of vscode.window.activeTextEditor
\*   decorations  for the editor of each document, what setDecorations set
\*                last: HlNoItem for no ranges, or the FileItem whose
\*                reference ranges were set
\*   waiting      the calls that wait in `await model.get(uri)` for the
\*                items of a pending model, in the order they began to wait:
\*                show() calls (with the editor they read) and listener calls
\*   stale        whether a show() has passed ranges of a model to
\*                setDecorations when that model was not _model any more
NewAsyncHighlights(editor) ==
    [models |-> <<>>,
     model |-> Undef,
     listener |-> Undef,
     ignore |-> {},
     editor |-> editor,
     decorations |-> [doc \in HlDocuments |-> HlNoItem],
     waiting |-> <<>>,
     stale |-> FALSE]

\* ReferencesModel.get(uri) of the model numbered m, once items has resolved
AhModelGet(s, m, uri) ==
    LET items == s.models[m].uris
        hits == {i \in 1..Len(items) : UriToString(items[i]) = UriToString(uri)}
    IN  IF hits = {} THEN HlNoItem
        ELSE <<m, CHOOSE i \in hits : \A j \in hits : i <= j>>

\* EditorHighlights.show() after `await this._model.get(editor.document.uri)`,
\* for the model m and the editor that the call read before the await
AhShowRest(s, m, editor) ==
    LET item == AhModelGet(s, m, editor)
    IN  IF item # HlNoItem /\ item \notin s.ignore
        THEN [s EXCEPT !.decorations[editor] = item,
                       !.stale = @ \/ s.model # m]
        ELSE [s EXCEPT !.decorations[editor] = HlNoItem]

\* EditorHighlights.show() (the CallsModel branch is left out: all models
\* are ReferencesModels)
AhShowIn(s) ==
    IF s.editor = HlNoEditor THEN s
    ELSE IF s.model = Undef THEN [s EXCEPT !.decorations[s.editor] = HlNoItem]
    ELSE IF s.models[s.model].state = "fulfilled" THEN AhShowRest(s, s.model, s.editor)
    ELSE IF s.models[s.model].state = "rejected" THEN s
    ELSE [s EXCEPT !.waiting = Append(@, [kind |-> "show", model |-> s.model,
                                          doc |-> s.editor])]

\* EditorHighlights.hide()
AhHideIn(s) ==
    IF s.editor # HlNoEditor THEN [s EXCEPT !.decorations[s.editor] = HlNoItem] ELSE s

\* EditorHighlights.setModel(model); m is Undef for `undefined`
AhSetModelIn(s, m) ==
    AhShowIn([s EXCEPT !.model = m, !.ignore = {}, !.listener = m])

\* The listener of setModel, made for the model m, for a change of `doc`
AhListener(s, m, doc) ==
    IF s.models[m].state = "fulfilled"
    THEN [s EXCEPT !.ignore = @ \cup {AhModelGet(s, m, doc)}]
    ELSE IF s.models[m].state = "rejected" THEN s
    ELSE [s EXCEPT !.waiting = Append(@, [kind |-> "listener", model |-> m, doc |-> doc])]

\* The calls waiting for the items of model m go on, in the order they waited.
RECURSIVE AhResume(_, _, _)
AhResume(s, m, calls) ==
    IF calls = <<>> THEN s
    ELSE LET call == Head(calls)
             s1 == IF call.model # m THEN s
                   ELSE IF call.kind = "show" THEN AhShowRest(s, m, call.doc)
                   ELSE [s EXCEPT !.ignore = @ \cup {AhModelGet(s, m, call.doc)}]
         IN  AhResume(s1, m, Tail(calls))

RECURSIVE AhNotOf(_, _)
AhNotOf(calls, m) ==
    IF calls = <<>> THEN <<>>
    ELSE IF Head(calls).model = m THEN AhNotOf(Tail(calls), m)
    ELSE <<Head(calls)>> \o AhNotOf(Tail(calls), m)

AsyncHighlightsInit ==
    \E editor \in HlDocuments \cup {HlNoEditor} : ah = NewAsyncHighlights(editor)

\* A search starts: updateModel makes a ReferencesModel, whose locations are
\* not there yet, and calls setModel(model).
AhSetModel ==
    \E uris \in HlModels :
        /\ Len(ah.models) < MaxAsyncSetModels
        /\ Len(ah.waiting) < MaxWaiting
        /\ ah' = AhSetModelIn([ah EXCEPT !.models = Append(@, [uris |-> uris,
                                                               state |-> "pending"])],
                              Len(ah.models) + 1)

\* The results are cleared: setModel(undefined)
AhClearModel ==
    /\ ah.model # Undef
    /\ ah' = AhSetModelIn(ah, Undef)

\* The active editor changes while the view is visible: show()
AhEditorChanged ==
    \E doc \in HlDocuments \cup {HlNoEditor} :
        /\ doc # ah.editor
        /\ Len(ah.waiting) < MaxWaiting
        /\ ah' = AhShowIn([ah EXCEPT !.editor = doc])

\* An item was removed: refresh()
AhRefresh ==
    /\ Len(ah.waiting) < MaxWaiting
    /\ ah' = AhShowIn(AhHideIn(ah))

\* A document is edited: the listener of setModel, if there is one, runs.
AhTextChanged ==
    \E doc \in HlDocuments :
        /\ ah.listener # Undef
        /\ Len(ah.waiting) < MaxWaiting
        /\ ah' = AhListener(ah, ah.listener, doc)

\* The provider answers: the items of model m resolve.
AhItemsResolved ==
    \E m \in 1..Len(ah.models) :
        /\ ah.models[m].state = "pending"
        /\ ah' = AhResume([ah EXCEPT !.models[m].state = "fulfilled",
                                     !.waiting = AhNotOf(@, m)],
                          m, ah.waiting)

\* The provider fails: the items of model m are rejected, and so are the
\* calls that wait for them.
AhItemsFailed ==
    \E m \in 1..Len(ah.models) :
        /\ ah.models[m].state = "pending"
        /\ ah' = [ah EXCEPT !.models[m].state = "rejected",
                            !.waiting = AhNotOf(@, m)]

\* ------------------------------------- asynchronous EditorHighlights: claims

\* C27: after setModel(undefined) or setModel(M2), once all pending show()
\* calls have settled, the active editor's decorations are those of the
\* current model only (none when the model is undefined); a show() started
\* for a previous model never applies that model's ranges after the model
\* was cleared or replaced.
C27_OnlyCurrentModelShown ==
    /\ ~ah.stale
    /\ (ah.waiting = <<>> /\ ah.editor # HlNoEditor) =>
          ah.decorations[ah.editor][1] \in {Undef, ah.model}

\* ------------------------------- ModelImpl: counts and names (src/src/model.ts)

\* ModelImpl._allFilesIn(folder): the files of the subfolders, then the
\* folder's own
RECURSIVE AllFilesIn(_, _)
RECURSIVE AllFilesInFolders(_, _)
AllFilesIn(h, d) == AllFilesInFolders(h, h.ffolders[d]) \o h.ffiles[d]
AllFilesInFolders(h, folders) ==
    IF folders = <<>> THEN <<>>
    ELSE AllFilesIn(h, Head(folders)) \o AllFilesInFolders(h, Tail(folders))

\* ModelImpl._count(leafCounter) for the two counters of totalRefs, totalFiles
RECURSIVE CountRefs(_, _)
CountRefs(h, files) ==
    IF files = <<>> THEN 0 ELSE Len(h.irefs[Head(files)]) + CountRefs(h, Tail(files))

\* ModelImpl.totalRefs, totalFiles
TotalRefs(h) == CountRefs(h, AllFilesIn(h, RootId))
TotalFiles(h) == Len(AllFilesIn(h, RootId))

\* FileItemImpl.name: the getter returns the literal 'abc'
FileItemName(h, file) == <<"a", "b", "c">>

\* ------------------------------------------ ModelImpl: claims on construction

SuppliedDocuments == {UriToString(supplied[i].uri) : i \in 1..Len(supplied)}

\* C29: immediately after construction, in flat and in folder-grouping mode,
\* every supplied location is represented by exactly one reference node:
\* totalRefs equals the number of supplied locations and totalFiles the
\* number of distinct document uris among them.
C29_CountsMatchSupplied ==
    lastOp.op = "new" =>
        /\ TotalRefs(heap) = Len(supplied)
        /\ TotalFiles(heap) = Cardinality(SuppliedDocuments)
        /\ \A i \in 1..Len(supplied) :
              Cardinality({r \in LiveRefs(heap) : heap.rloc[r] = supplied[i]}) = 1

\* C29 in flat mode alone.
C29_FlatMode == ~configuration.showFolders => C29_CountsMatchSupplied

\* C29 in folder-grouping mode when every location is below a workspace root.
C29_BelowTheRoots ==
    (\A i \in 1..Len(supplied) :
        GetContainerComponents(configuration.rootUris, supplied[i].uri) # NoComponents)
        => C29_CountsMatchSupplied

\* C30: the name of a file item is the last path segment of its uri (a file
\* at /root/b has name 'b'), in flat and folder-grouping mode.
C30_FileNameIsLastSegment ==
    \A f \in LiveFiles(heap) :
        FileItemName(heap, f) = Last(Split(heap.iuri[f].path))

\* ------------------------------------------ ModelImpl: claims on the links

\* How often e is in the array.
Count(arr, e) == Cardinality({i \in 1..Len(arr) : arr[i] = e})

\* C36: the parent and child links of ModelImpl are consistent after
\* construction and after any sequence of removals, folder compaction
\* included: every live folder, file and reference is exactly once in the
\* child list of its parent, and every element of a child list of a live
\* node has that node as its parent.
C36_LinksConsistent ==
    /\ \A d \in LiveFolders(heap) :
          /\ \A i \in 1..Len(heap.ffolders[d]) : heap.fparent[heap.ffolders[d][i]] = d
          /\ \A i \in 1..Len(heap.ffiles[d]) : heap.iparent[heap.ffiles[d][i]] = d
          /\ d # RootId =>
                /\ heap.fparent[d] \in LiveFolders(heap)
                /\ Count(heap.ffolders[heap.fparent[d]], d) = 1
    /\ \A f \in LiveFiles(heap) :
          /\ \A i \in 1..Len(heap.irefs[f]) : heap.rparent[heap.irefs[f][i]] = f
          /\ Count(heap.ffiles[heap.iparent[f]], f) = 1
    /\ \A r \in LiveRefs(heap) : Count(heap.irefs[heap.rparent[r]], r) = 1

\* A removal in folder-grouping mode made compaction merge a folder into its
\* subfolder.
C36_Witness ==
    /\ lastOp.op = "remove"
    /\ ~heap.threw
    /\ configuration.showFolders
    /\ \E d \in LiveFolders(heap) \ {RootId} :
          /\ heap.fname[d] # Pre.fname[d]
          /\ heap.fparent[d] # Pre.fparent[d]

\* ------------------- History of the searches (src/unnamed/part_007, History)

\* The largest number of History.add calls.
MaxSearchAdds == 3

VARIABLES
    sh              \* History._items in insertion order, and the anchors added

shVars == <<sh>>

DigitChars == <<"0", "1", "2", "3", "4", "5", "6", "7", "8", "9">>

\* string + number: the decimal digits of a number that is not negative
RECURSIVE NumberToString(_)
NumberToString(n) ==
    IF n < 10 THEN <<DigitChars[n + 1]>>
    ELSE NumberToString(n \div 10) \o <<DigitChars[(n % 10) + 1]>>

\* Buffer.from(string): the UTF-8 bytes; a code unit below 128 is one byte
Utf8(s) == [i \in 1..Len(s) |-> CharCode(s[i])]

Base64Alphabet ==
    << "A", "B", "C", "D", "E", "F", "G", "H", "I", "J", "K", "L", "M",
       "N", "O", "P", "Q", "R", "S", "T", "U", "V", "W", "X", "Y", "Z",
       "a", "b", "c", "d", "e", "f", "g", "h", "i", "j", "k", "l", "m",
       "n", "o", "p", "q", "r", "s", "t", "u", "v", "w", "x", "y", "z",
       "0", "1", "2", "3", "4", "5", "6", "7", "8", "9", "+", "/" >>

\* buffer.toString('base64'): four characters for every three bytes, padded
\* with '='
RECURSIVE Base64(_)
Base64(bytes) ==
    IF bytes = <<>> THEN <<>>
    ELSE LET n == Len(bytes)
             v == bytes[1] * 65536 + (IF n >= 2 THEN bytes[2] ELSE 0) * 256
                      + (IF n >= 3 THEN bytes[3] ELSE 0)
         IN  << Base64Alphabet[(v \div 262144) + 1],
                Base64Alphabet[((v \div 4096) % 64) + 1],
                IF n >= 2 THEN Base64Alphabet[((v \div 64) % 64) + 1] ELSE "=",
                IF n >= 3 THEN Base64Alphabet[(v % 64) + 1] ELSE "=" >>
             \o Base64(SubSeq(bytes, 4, n))

\* History._makeId(uri, position)
MakeId(uri, position) ==
    Base64(Utf8(UriToString(uri) \o NumberToString(position.line)
                    \o NumberToString(position.character)))

\* History.add({ uri, position }); the preview of the item is left out
SearchHistoryAdd(items, uri, position) ==
    LET id == MakeId(uri, position)
    IN  MapSet(MapDelete(items, id), [id |-> id, uri |-> uri, position |-> position])

\* The anchors of the searches: two documents, and positions with lines and
\* characters of one and of two digits.
SearchAnchorUris == {FileUri(PathOf(<<"a">>)), FileUri(PathOf(<<"b">>))}
SearchAnchorNumbers == {0, 1, 11}

SearchHistoryInit == sh = [items |-> <<>>, added |-> {}, adds |-> 0]

\* findCommand: history.add(model) for a search at uri and position
AddSearch ==
    /\ sh.adds < MaxSearchAdds
    /\ \E uri \in SearchAnchorUris, line \in SearchAnchorNumbers,
          character \in SearchAnchorNumbers :
          sh' = [items |-> SearchHistoryAdd(sh.items, uri, Pos(line, character)),
                 added |-> sh.added \cup {<<uri, Pos(line, character)>>},
                 adds |-> sh.adds + 1]

\* ---------------------------------------------- History of the searches: claims

\* C35: the ids of the history are injective on anchors: two anchors that
\* differ in uri, line or character never have the same id, so adding a
\* search never replaces the entry of a different anchor: every anchor added
\* has its entry.
C35_IdsInjective ==
    /\ \A a, b \in sh.added : a # b => MakeId(a[1], a[2]) # MakeId(b[1], b[2])
    /\ \A a \in sh.added :
          \E k \in 1..Len(sh.items) :
              sh.items[k].uri = a[1] /\ sh.items[k].position = a[2]

\* The same for anchors whose line and character have one digit.
C35_OneDigit ==
    (\A a \in sh.added : a[2].line < 10 /\ a[2].character < 10) => C35_IdsInjective

\* ------------------------------------------------------------ specifications

ModelIdle ==
    /\ heap = EmptyHeap
    /\ configuration = [rootUris |-> <<>>, showFolders |-> FALSE]
    /\ supplied = <<>>
    /\ lastOp = [op |-> "none", kind |-> "model", item |-> Undef, pre |-> EmptyHeap]

FlatIdle ==
    /\ flatNav = NoNav
    /\ flat = EmptyFlat
    /\ flatSupplied = <<>>
    /\ flatLastOp = [op |-> "none", kind |-> "model", item |-> Undef, pre |-> EmptyFlat]

TreeIdle ==
    /\ tree = NewSymbolsTree
    /\ treeLastOp = [op |-> "none", input |-> Undef, pre |-> NewSymbolsTree]

ControllerIdle ==
    /\ ctl = NewController
    /\ ctlLastOp = [op |-> "none", search |-> Undef, pre |-> NewController]

FindIdle ==
    /\ fc = NewFindController
    /\ fcLastOp = [op |-> "none", find |-> Undef, pre |-> NewFindController]

ResolveIdle ==
    /\ rs = NewReferenceSearchModel
    /\ rsLastOp = [op |-> "none", call |-> Undef]

HistoryIdle ==
    /\ hist = <<>>
    /\ histLog = <<>>
    /\ histLastOp = [op |-> "none", id |-> "", pre |-> <<>>]

CallsIdle ==
    /\ cv = NewCallsView
    /\ cvLastOp = [op |-> "none", model |-> Undef, history |-> <<>>]

WalkIdle == walk = NoWalk

CallItemsIdle == ci = NewCallItems

CallsNavIdle == cn = NewCallsNavModel(0)

DirIdle == cd = NewDirState("incoming")

DocIdle == gd = [m |-> EmptyFlat, document |-> <<>>, opens |-> <<>>, calls |-> <<>>]

FileDocIdle == fd = [h |-> EmptyHeap, document |-> <<>>, opens |-> <<>>, calls |-> 0, returned |-> <<>>]

EditorHighlightsIdle == eh = NewEditorHighlights

AsyncHighlightsIdle == ah = NewAsyncHighlights(HlNoEditor)

SearchHistoryIdle == sh = [items |-> <<>>, added |-> {}, adds |-> 0]

vars == <<modelVars, flatVars, treeVars, ctlVars, fcVars, rsVars, histVars, cvVars, walkVars, ciVars, cnVars, cdVars, gdVars, fdVars, ehVars, ahVars, shVars>>

\* ModelImpl: a model is constructed and items are removed from it.
Init == ModelInit /\ FlatIdle /\ TreeIdle /\ ControllerIdle /\ FindIdle /\ ResolveIdle /\ HistoryIdle /\ CallsIdle /\ WalkIdle /\ CallItemsIdle /\ CallsNavIdle /\ DirIdle /\ DocIdle /\ FileDocIdle /\ EditorHighlightsIdle /\ AsyncHighlightsIdle /\ SearchHistoryIdle

Next ==
    \/ RemoveReference /\ UNCHANGED <<flatVars, treeVars, ctlVars, fcVars, rsVars, histVars, cvVars, walkVars, ciVars, cnVars, cdVars, gdVars, fdVars, ehVars, ahVars, shVars>>
    \/ RemoveFile /\ UNCHANGED <<flatVars, treeVars, ctlVars, fcVars, rsVars, histVars, cvVars, walkVars, ciVars, cnVars, cdVars, gdVars, fdVars, ehVars, ahVars, shVars>>
    \/ RemoveFolder /\ UNCHANGED <<flatVars, treeVars, ctlVars, fcVars, rsVars, histVars, cvVars, walkVars, ciVars, cnVars, cdVars, gdVars, fdVars, ehVars, ahVars, shVars>>

Spec == Init /\ [][Next]_vars

\* ReferencesModel / LocationsModel: the same for the flat model.
InitFlat == FlatInit /\ ModelIdle /\ TreeIdle /\ ControllerIdle /\ FindIdle /\ ResolveIdle /\ HistoryIdle /\ CallsIdle /\ WalkIdle /\ CallItemsIdle /\ CallsNavIdle /\ DirIdle /\ DocIdle /\ FileDocIdle /\ EditorHighlightsIdle /\ AsyncHighlightsIdle /\ SearchHistoryIdle

NextFlat ==
    \/ FlatRemoveFile /\ UNCHANGED <<modelVars, treeVars, ctlVars, fcVars, rsVars, histVars, cvVars, walkVars, ciVars, cnVars, cdVars, gdVars, fdVars, ehVars, ahVars, shVars>>
    \/ FlatRemoveReference /\ UNCHANGED <<modelVars, treeVars, ctlVars, fcVars, rsVars, histVars, cvVars, walkVars, ciVars, cnVars, cdVars, gdVars, fdVars, ehVars, ahVars, shVars>>
    \/ FlatNearest /\ UNCHANGED <<modelVars, treeVars, ctlVars, fcVars, rsVars, histVars, cvVars, walkVars, ciVars, cnVars, cdVars, gdVars, fdVars, ehVars, ahVars, shVars>>
    \/ FlatNext /\ UNCHANGED <<modelVars, treeVars, ctlVars, fcVars, rsVars, histVars, cvVars, walkVars, ciVars, cnVars, cdVars, gdVars, fdVars, ehVars, ahVars, shVars>>
    \/ FlatPrevious /\ UNCHANGED <<modelVars, treeVars, ctlVars, fcVars, rsVars, histVars, cvVars, walkVars, ciVars, cnVars, cdVars, gdVars, fdVars, ehVars, ahVars, shVars>>

SpecFlat == InitFlat /\ [][NextFlat]_vars

\* SymbolsTree: commands set and clear the input while models resolve.
InitTree == TreeInit /\ ModelIdle /\ FlatIdle /\ ControllerIdle /\ FindIdle /\ ResolveIdle /\ HistoryIdle /\ CallsIdle /\ WalkIdle /\ CallItemsIdle /\ CallsNavIdle /\ DirIdle /\ DocIdle /\ FileDocIdle /\ EditorHighlightsIdle /\ AsyncHighlightsIdle /\ SearchHistoryIdle

NextTree ==
    \/ SetInput /\ UNCHANGED <<modelVars, flatVars, ctlVars, fcVars, rsVars, histVars, cvVars, walkVars, ciVars, cnVars, cdVars, gdVars, fdVars, ehVars, ahVars, shVars>>
    \/ ClearInput /\ UNCHANGED <<modelVars, flatVars, ctlVars, fcVars, rsVars, histVars, cvVars, walkVars, ciVars, cnVars, cdVars, gdVars, fdVars, ehVars, ahVars, shVars>>
    \/ ClearHistory /\ UNCHANGED <<modelVars, flatVars, ctlVars, fcVars, rsVars, histVars, cvVars, walkVars, ciVars, cnVars, cdVars, gdVars, fdVars, ehVars, ahVars, shVars>>
    \/ Refind /\ UNCHANGED <<modelVars, flatVars, ctlVars, fcVars, rsVars, histVars, cvVars, walkVars, ciVars, cnVars, cdVars, gdVars, fdVars, ehVars, ahVars, shVars>>
    \/ Refresh /\ UNCHANGED <<modelVars, flatVars, ctlVars, fcVars, rsVars, histVars, cvVars, walkVars, ciVars, cnVars, cdVars, gdVars, fdVars, ehVars, ahVars, shVars>>
    \/ ModelFulfilled /\ UNCHANGED <<modelVars, flatVars, ctlVars, fcVars, rsVars, histVars, cvVars, walkVars, ciVars, cnVars, cdVars, gdVars, fdVars, ehVars, ahVars, shVars>>
    \/ ModelRejected /\ UNCHANGED <<modelVars, flatVars, ctlVars, fcVars, rsVars, histVars, cvVars, walkVars, ciVars, cnVars, cdVars, gdVars, fdVars, ehVars, ahVars, shVars>>

SpecTree == InitTree /\ [][NextTree]_vars

\* part_004: find and clear commands while provider calls return.
InitController == ControllerInit /\ ModelIdle /\ FlatIdle /\ TreeIdle /\ FindIdle /\ ResolveIdle /\ HistoryIdle /\ CallsIdle /\ WalkIdle /\ CallItemsIdle /\ CallsNavIdle /\ DirIdle /\ DocIdle /\ FileDocIdle /\ EditorHighlightsIdle /\ AsyncHighlightsIdle /\ SearchHistoryIdle

NextController ==
    \/ FindReferences /\ UNCHANGED <<modelVars, flatVars, treeVars, fcVars, rsVars, histVars, cvVars, walkVars, ciVars, cnVars, cdVars, gdVars, fdVars, ehVars, ahVars, shVars>>
    \/ ClearResults /\ UNCHANGED <<modelVars, flatVars, treeVars, fcVars, rsVars, histVars, cvVars, walkVars, ciVars, cnVars, cdVars, gdVars, fdVars, ehVars, ahVars, shVars>>
    \/ ClearControllerHistory /\ UNCHANGED <<modelVars, flatVars, treeVars, fcVars, rsVars, histVars, cvVars, walkVars, ciVars, cnVars, cdVars, gdVars, fdVars, ehVars, ahVars, shVars>>
    \/ ItemsFulfilled /\ UNCHANGED <<modelVars, flatVars, treeVars, fcVars, rsVars, histVars, cvVars, walkVars, ciVars, cnVars, cdVars, gdVars, fdVars, ehVars, ahVars, shVars>>
    \/ ItemsRejected /\ UNCHANGED <<modelVars, flatVars, treeVars, fcVars, rsVars, histVars, cvVars, walkVars, ciVars, cnVars, cdVars, gdVars, fdVars, ehVars, ahVars, shVars>>
    \/ DocumentOpened /\ UNCHANGED <<modelVars, flatVars, treeVars, fcVars, rsVars, histVars, cvVars, walkVars, ciVars, cnVars, cdVars, gdVars, fdVars, ehVars, ahVars, shVars>>

SpecController == InitController /\ [][NextController]_vars

\* extension.ts: find and clear commands while models are created.
InitFind == FindInit /\ ModelIdle /\ FlatIdle /\ TreeIdle /\ ControllerIdle /\ ResolveIdle /\ HistoryIdle /\ CallsIdle /\ WalkIdle /\ CallItemsIdle /\ CallsNavIdle /\ DirIdle /\ DocIdle /\ FileDocIdle /\ EditorHighlightsIdle /\ AsyncHighlightsIdle /\ SearchHistoryIdle

NextFind ==
    \/ FindCommand /\ UNCHANGED <<modelVars, flatVars, treeVars, ctlVars, rsVars, histVars, cvVars, walkVars, ciVars, cnVars, cdVars, gdVars, fdVars, ehVars, ahVars, shVars>>
    \/ ContextSet /\ UNCHANGED <<modelVars, flatVars, treeVars, ctlVars, rsVars, histVars, cvVars, walkVars, ciVars, cnVars, cdVars, gdVars, fdVars, ehVars, ahVars, shVars>>
    \/ ModelCreated /\ UNCHANGED <<modelVars, flatVars, treeVars, ctlVars, rsVars, histVars, cvVars, walkVars, ciVars, cnVars, cdVars, gdVars, fdVars, ehVars, ahVars, shVars>>
    \/ ModelCreationFailed /\ UNCHANGED <<modelVars, flatVars, treeVars, ctlVars, rsVars, histVars, cvVars, walkVars, ciVars, cnVars, cdVars, gdVars, fdVars, ehVars, ahVars, shVars>>
    \/ FindDocumentOpened /\ UNCHANGED <<modelVars, flatVars, treeVars, ctlVars, rsVars, histVars, cvVars, walkVars, ciVars, cnVars, cdVars, gdVars, fdVars, ehVars, ahVars, shVars>>
    \/ ClearCommand /\ UNCHANGED <<modelVars, flatVars, treeVars, ctlVars, rsVars, histVars, cvVars, walkVars, ciVars, cnVars, cdVars, gdVars, fdVars, ehVars, ahVars, shVars>>

SpecFind == InitFind /\ [][NextFind]_vars

\* ReferenceSearchModel: resolve is read and reset while provider calls return.
InitResolve == ResolveInit /\ ModelIdle /\ FlatIdle /\ TreeIdle /\ ControllerIdle /\ FindIdle /\ HistoryIdle /\ CallsIdle /\ WalkIdle /\ CallItemsIdle /\ CallsNavIdle /\ DirIdle /\ DocIdle /\ FileDocIdle /\ EditorHighlightsIdle /\ AsyncHighlightsIdle /\ SearchHistoryIdle

NextResolve ==
    \/ AccessResolve /\ UNCHANGED <<modelVars, flatVars, treeVars, ctlVars, fcVars, histVars, cvVars, walkVars, ciVars, cnVars, cdVars, gdVars, fdVars, ehVars, ahVars, shVars>>
    \/ Reset /\ UNCHANGED <<modelVars, flatVars, treeVars, ctlVars, fcVars, histVars, cvVars, walkVars, ciVars, cnVars, cdVars, gdVars, fdVars, ehVars, ahVars, shVars>>
    \/ ProviderReturned /\ UNCHANGED <<modelVars, flatVars, treeVars, ctlVars, fcVars, histVars, cvVars, walkVars, ciVars, cnVars, cdVars, gdVars, fdVars, ehVars, ahVars, shVars>>
    \/ ProviderFailed /\ UNCHANGED <<modelVars, flatVars, treeVars, ctlVars, fcVars, histVars, cvVars, walkVars, ciVars, cnVars, cdVars, gdVars, fdVars, ehVars, ahVars, shVars>>

SpecResolve == InitResolve /\ [][NextResolve]_vars

\* History: items are added and the history is cleared.
InitHistory == HistoryInit /\ ModelIdle /\ FlatIdle /\ TreeIdle /\ ControllerIdle /\ FindIdle /\ ResolveIdle /\ CallsIdle /\ WalkIdle /\ CallItemsIdle /\ CallsNavIdle /\ DirIdle /\ DocIdle /\ FileDocIdle /\ EditorHighlightsIdle /\ AsyncHighlightsIdle /\ SearchHistoryIdle

NextHistory ==
    \/ AddToHistory /\ UNCHANGED <<modelVars, flatVars, treeVars, ctlVars, fcVars, rsVars, cvVars, walkVars, ciVars, cnVars, cdVars, gdVars, fdVars, ehVars, ahVars, shVars>>
    \/ ClearTheHistory /\ UNCHANGED <<modelVars, flatVars, treeVars, ctlVars, fcVars, rsVars, cvVars, walkVars, ciVars, cnVars, cdVars, gdVars, fdVars, ehVars, ahVars, shVars>>

SpecHistory == InitHistory /\ [][NextHistory]_vars

\* The calls-view controller: searches are shown, their roots arrive.
InitCalls == CallsInit /\ ModelIdle /\ FlatIdle /\ TreeIdle /\ ControllerIdle /\ FindIdle /\ ResolveIdle /\ HistoryIdle /\ WalkIdle /\ CallItemsIdle /\ CallsNavIdle /\ DirIdle /\ DocIdle /\ FileDocIdle /\ EditorHighlightsIdle /\ AsyncHighlightsIdle /\ SearchHistoryIdle

NextCalls ==
    \/ ShowCommand /\ UNCHANGED <<modelVars, flatVars, treeVars, ctlVars, fcVars, rsVars, histVars, walkVars, ciVars, cnVars, cdVars, gdVars, fdVars, ehVars, ahVars, shVars>>
    \/ SetModeCommand /\ UNCHANGED <<modelVars, flatVars, treeVars, ctlVars, fcVars, rsVars, histVars, walkVars, ciVars, cnVars, cdVars, gdVars, fdVars, ehVars, ahVars, shVars>>
    \/ ClearCallsCommand /\ UNCHANGED <<modelVars, flatVars, treeVars, ctlVars, fcVars, rsVars, histVars, walkVars, ciVars, cnVars, cdVars, gdVars, fdVars, ehVars, ahVars, shVars>>
    \/ RootFulfilled /\ UNCHANGED <<modelVars, flatVars, treeVars, ctlVars, fcVars, rsVars, histVars, walkVars, ciVars, cnVars, cdVars, gdVars, fdVars, ehVars, ahVars, shVars>>

SpecCalls == InitCalls /\ [][NextCalls]_vars

\* ModelImpl navigation: items are removed, and the references are walked
\* with move().
InitMove == ModelInit /\ WalkIdle /\ FlatIdle /\ TreeIdle /\ ControllerIdle /\ FindIdle /\ ResolveIdle /\ HistoryIdle /\ CallsIdle /\ CallItemsIdle /\ CallsNavIdle /\ DirIdle /\ DocIdle /\ FileDocIdle /\ EditorHighlightsIdle /\ AsyncHighlightsIdle /\ SearchHistoryIdle

NextMove ==
    \/ RemoveBeforeWalk /\ UNCHANGED <<flatVars, treeVars, ctlVars, fcVars, rsVars, histVars, cvVars, ciVars, cnVars, cdVars, gdVars, fdVars, ehVars, ahVars, shVars>>
    \/ WalkStart /\ UNCHANGED <<flatVars, treeVars, ctlVars, fcVars, rsVars, histVars, cvVars, ciVars, cnVars, cdVars, gdVars, fdVars, ehVars, ahVars, shVars>>
    \/ WalkStep /\ UNCHANGED <<flatVars, treeVars, ctlVars, fcVars, rsVars, histVars, cvVars, ciVars, cnVars, cdVars, gdVars, fdVars, ehVars, ahVars, shVars>>

SpecMove == InitMove /\ [][NextMove]_vars

\* getCallChildren: children are asked for, the provider answers.
InitChildren == CallItemsInit /\ ModelIdle /\ FlatIdle /\ TreeIdle /\ ControllerIdle /\ FindIdle /\ ResolveIdle /\ HistoryIdle /\ CallsIdle /\ WalkIdle /\ CallsNavIdle /\ DirIdle /\ DocIdle /\ FileDocIdle /\ EditorHighlightsIdle /\ AsyncHighlightsIdle /\ SearchHistoryIdle

NextChildren ==
    \/ GetCallChildren /\ UNCHANGED <<modelVars, flatVars, treeVars, ctlVars, fcVars, rsVars, histVars, cvVars, walkVars, cnVars, cdVars, gdVars, fdVars, ehVars, ahVars, shVars>>
    \/ CallsProvided /\ UNCHANGED <<modelVars, flatVars, treeVars, ctlVars, fcVars, rsVars, histVars, cvVars, walkVars, cnVars, cdVars, gdVars, fdVars, ehVars, ahVars, shVars>>
    \/ CallsFailed /\ UNCHANGED <<modelVars, flatVars, treeVars, ctlVars, fcVars, rsVars, histVars, cvVars, walkVars, cnVars, cdVars, gdVars, fdVars, ehVars, ahVars, shVars>>

SpecChildren == InitChildren /\ [][NextChildren]_vars

\* CallsModel navigation: items are expanded and dismissed, then one step is made.
InitCallsNav == CallsNavInit /\ ModelIdle /\ FlatIdle /\ TreeIdle /\ ControllerIdle /\ FindIdle /\ ResolveIdle /\ HistoryIdle /\ CallsIdle /\ WalkIdle /\ CallItemsIdle /\ DirIdle /\ DocIdle /\ FileDocIdle /\ EditorHighlightsIdle /\ AsyncHighlightsIdle /\ SearchHistoryIdle

NextCallsNav ==
    \/ CallsExpand /\ UNCHANGED <<modelVars, flatVars, treeVars, ctlVars, fcVars, rsVars, histVars, cvVars, walkVars, ciVars, cdVars, gdVars, fdVars, ehVars, ahVars, shVars>>
    \/ CallsRemove /\ UNCHANGED <<modelVars, flatVars, treeVars, ctlVars, fcVars, rsVars, histVars, cvVars, walkVars, ciVars, cdVars, gdVars, fdVars, ehVars, ahVars, shVars>>
    \/ CallsGoNext /\ UNCHANGED <<modelVars, flatVars, treeVars, ctlVars, fcVars, rsVars, histVars, cvVars, walkVars, ciVars, cdVars, gdVars, fdVars, ehVars, ahVars, shVars>>
    \/ CallsGoPrevious /\ UNCHANGED <<modelVars, flatVars, treeVars, ctlVars, fcVars, rsVars, histVars, cvVars, walkVars, ciVars, cdVars, gdVars, fdVars, ehVars, ahVars, shVars>>

SpecCallsNav == InitCallsNav /\ [][NextCallsNav]_vars

\* Call-hierarchy direction: hierarchies are shown, expanded and switched.
InitDirection == DirInit /\ ModelIdle /\ FlatIdle /\ TreeIdle /\ ControllerIdle /\ FindIdle /\ ResolveIdle /\ HistoryIdle /\ CallsIdle /\ WalkIdle /\ CallItemsIdle /\ CallsNavIdle /\ DocIdle /\ FileDocIdle /\ EditorHighlightsIdle /\ AsyncHighlightsIdle /\ SearchHistoryIdle

NextDirection ==
    \/ ShowCallHierarchy /\ UNCHANGED <<modelVars, flatVars, treeVars, ctlVars, fcVars, rsVars, histVars, cvVars, walkVars, ciVars, cnVars, gdVars, fdVars, ehVars, ahVars, shVars>>
    \/ ShowOtherInput /\ UNCHANGED <<modelVars, flatVars, treeVars, ctlVars, fcVars, rsVars, histVars, cvVars, walkVars, ciVars, cnVars, gdVars, fdVars, ehVars, ahVars, shVars>>
    \/ SetCallsDirection /\ UNCHANGED <<modelVars, flatVars, treeVars, ctlVars, fcVars, rsVars, histVars, cvVars, walkVars, ciVars, cnVars, gdVars, fdVars, ehVars, ahVars, shVars>>
    \/ DirPrepared /\ UNCHANGED <<modelVars, flatVars, treeVars, ctlVars, fcVars, rsVars, histVars, cvVars, walkVars, ciVars, cnVars, gdVars, fdVars, ehVars, ahVars, shVars>>
    \/ DirPrepareFailed /\ UNCHANGED <<modelVars, flatVars, treeVars, ctlVars, fcVars, rsVars, histVars, cvVars, walkVars, ciVars, cnVars, gdVars, fdVars, ehVars, ahVars, shVars>>
    \/ DirExpand /\ UNCHANGED <<modelVars, flatVars, treeVars, ctlVars, fcVars, rsVars, histVars, cvVars, walkVars, ciVars, cnVars, gdVars, fdVars, ehVars, ahVars, shVars>>

SpecDirection == InitDirection /\ [][NextDirection]_vars

\* ModelImpl: items of the tree are removed, then one item detached before.
InitDetached == ModelInit /\ FlatIdle /\ TreeIdle /\ ControllerIdle /\ FindIdle /\ ResolveIdle /\ HistoryIdle /\ CallsIdle /\ WalkIdle /\ CallItemsIdle /\ CallsNavIdle /\ DirIdle /\ DocIdle /\ FileDocIdle /\ EditorHighlightsIdle /\ AsyncHighlightsIdle /\ SearchHistoryIdle

NextDetached ==
    \/ ~RemovedDetached /\ RemoveReference /\ UNCHANGED <<flatVars, treeVars, ctlVars, fcVars, rsVars, histVars, cvVars, walkVars, ciVars, cnVars, cdVars, gdVars, fdVars, ehVars, ahVars, shVars>>
    \/ ~RemovedDetached /\ RemoveFile /\ UNCHANGED <<flatVars, treeVars, ctlVars, fcVars, rsVars, histVars, cvVars, walkVars, ciVars, cnVars, cdVars, gdVars, fdVars, ehVars, ahVars, shVars>>
    \/ ~RemovedDetached /\ RemoveFolder /\ UNCHANGED <<flatVars, treeVars, ctlVars, fcVars, rsVars, histVars, cvVars, walkVars, ciVars, cnVars, cdVars, gdVars, fdVars, ehVars, ahVars, shVars>>
    \/ ~RemovedDetached /\ RemoveDetached /\ UNCHANGED <<flatVars, treeVars, ctlVars, fcVars, rsVars, histVars, cvVars, walkVars, ciVars, cnVars, cdVars, gdVars, fdVars, ehVars, ahVars, shVars>>

SpecDetached == InitDetached /\ [][NextDetached]_vars

\* LocationsModel: items are dismissed, then documents are asked for and opened.
InitDocument == DocInit /\ ModelIdle /\ FlatIdle /\ TreeIdle /\ ControllerIdle /\ FindIdle /\ ResolveIdle /\ HistoryIdle /\ CallsIdle /\ WalkIdle /\ CallItemsIdle /\ CallsNavIdle /\ DirIdle /\ FileDocIdle /\ EditorHighlightsIdle /\ AsyncHighlightsIdle /\ SearchHistoryIdle

NextDocument ==
    \/ DocRemove /\ UNCHANGED <<modelVars, flatVars, treeVars, ctlVars, fcVars, rsVars, histVars, cvVars, walkVars, ciVars, cnVars, cdVars, fdVars, ehVars, ahVars, shVars>>
    \/ GetDocument /\ UNCHANGED <<modelVars, flatVars, treeVars, ctlVars, fcVars, rsVars, histVars, cvVars, walkVars, ciVars, cnVars, cdVars, fdVars, ehVars, ahVars, shVars>>
    \/ DocOpenSettled /\ UNCHANGED <<modelVars, flatVars, treeVars, ctlVars, fcVars, rsVars, histVars, cvVars, walkVars, ciVars, cnVars, cdVars, fdVars, ehVars, ahVars, shVars>>

SpecDocument == InitDocument /\ [][NextDocument]_vars

\* ModelImpl: documents of files are asked for, warmed up and opened.
InitFileDoc == FileDocInit /\ ModelIdle /\ FlatIdle /\ TreeIdle /\ ControllerIdle /\ FindIdle /\ ResolveIdle /\ HistoryIdle /\ CallsIdle /\ WalkIdle /\ CallItemsIdle /\ CallsNavIdle /\ DirIdle /\ DocIdle /\ EditorHighlightsIdle /\ AsyncHighlightsIdle /\ SearchHistoryIdle

NextFileDoc ==
    \/ FileDocGet /\ UNCHANGED <<modelVars, flatVars, treeVars, ctlVars, fcVars, rsVars, histVars, cvVars, walkVars, ciVars, cnVars, cdVars, gdVars, ehVars, ahVars, shVars>>
    \/ FileDocOpened /\ UNCHANGED <<modelVars, flatVars, treeVars, ctlVars, fcVars, rsVars, histVars, cvVars, walkVars, ciVars, cnVars, cdVars, gdVars, ehVars, ahVars, shVars>>
    \/ FileDocFailed /\ UNCHANGED <<modelVars, flatVars, treeVars, ctlVars, fcVars, rsVars, histVars, cvVars, walkVars, ciVars, cnVars, cdVars, gdVars, ehVars, ahVars, shVars>>
    \/ FileDocRemove /\ UNCHANGED <<modelVars, flatVars, treeVars, ctlVars, fcVars, rsVars, histVars, cvVars, walkVars, ciVars, cnVars, cdVars, gdVars, ehVars, ahVars, shVars>>

SpecFileDoc == InitFileDoc /\ [][NextFileDoc]_vars

\* EditorHighlights: models are set and cleared, documents edited, editors changed.
InitHighlights == EditorHighlightsInit /\ ModelIdle /\ FlatIdle /\ TreeIdle /\ ControllerIdle /\ FindIdle /\ ResolveIdle /\ HistoryIdle /\ CallsIdle /\ WalkIdle /\ CallItemsIdle /\ CallsNavIdle /\ DirIdle /\ DocIdle /\ FileDocIdle /\ AsyncHighlightsIdle /\ SearchHistoryIdle

NextHighlights ==
    \/ HlSetModel /\ UNCHANGED <<modelVars, flatVars, treeVars, ctlVars, fcVars, rsVars, histVars, cvVars, walkVars, ciVars, cnVars, cdVars, gdVars, fdVars, ahVars, shVars>>
    \/ HlClearModel /\ UNCHANGED <<modelVars, flatVars, treeVars, ctlVars, fcVars, rsVars, histVars, cvVars, walkVars, ciVars, cnVars, cdVars, gdVars, fdVars, ahVars, shVars>>
    \/ HlShow /\ UNCHANGED <<modelVars, flatVars, treeVars, ctlVars, fcVars, rsVars, histVars, cvVars, walkVars, ciVars, cnVars, cdVars, gdVars, fdVars, ahVars, shVars>>
    \/ HlHide /\ UNCHANGED <<modelVars, flatVars, treeVars, ctlVars, fcVars, rsVars, histVars, cvVars, walkVars, ciVars, cnVars, cdVars, gdVars, fdVars, ahVars, shVars>>
    \/ HlRefresh /\ UNCHANGED <<modelVars, flatVars, treeVars, ctlVars, fcVars, rsVars, histVars, cvVars, walkVars, ciVars, cnVars, cdVars, gdVars, fdVars, ahVars, shVars>>
    \/ HlEditorChanged /\ UNCHANGED <<modelVars, flatVars, treeVars, ctlVars, fcVars, rsVars, histVars, cvVars, walkVars, ciVars, cnVars, cdVars, gdVars, fdVars, ahVars, shVars>>
    \/ HlTextChanged /\ UNCHANGED <<modelVars, flatVars, treeVars, ctlVars, fcVars, rsVars, histVars, cvVars, walkVars, ciVars, cnVars, cdVars, gdVars, fdVars, ahVars, shVars>>

SpecHighlights == InitHighlights /\ [][NextHighlights]_vars

\* Asynchronous EditorHighlights: models are set before their items resolve.
InitAsyncHighlights == AsyncHighlightsInit /\ ModelIdle /\ FlatIdle /\ TreeIdle /\ ControllerIdle /\ FindIdle /\ ResolveIdle /\ HistoryIdle /\ CallsIdle /\ WalkIdle /\ CallItemsIdle /\ CallsNavIdle /\ DirIdle /\ DocIdle /\ FileDocIdle /\ EditorHighlightsIdle /\ SearchHistoryIdle

NextAsyncHighlights ==
    \/ AhSetModel /\ UNCHANGED <<modelVars, flatVars, treeVars, ctlVars, fcVars, rsVars, histVars, cvVars, walkVars, ciVars, cnVars, cdVars, gdVars, fdVars, ehVars, shVars>>
    \/ AhClearModel /\ UNCHANGED <<modelVars, flatVars, treeVars, ctlVars, fcVars, rsVars, histVars, cvVars, walkVars, ciVars, cnVars, cdVars, gdVars, fdVars, ehVars, shVars>>
    \/ AhEditorChanged /\ UNCHANGED <<modelVars, flatVars, treeVars, ctlVars, fcVars, rsVars, histVars, cvVars, walkVars, ciVars, cnVars, cdVars, gdVars, fdVars, ehVars, shVars>>
    \/ AhRefresh /\ UNCHANGED <<modelVars, flatVars, treeVars, ctlVars, fcVars, rsVars, histVars, cvVars, walkVars, ciVars, cnVars, cdVars, gdVars, fdVars, ehVars, shVars>>
    \/ AhTextChanged /\ UNCHANGED <<modelVars, flatVars, treeVars, ctlVars, fcVars, rsVars, histVars, cvVars, walkVars, ciVars, cnVars, cdVars, gdVars, fdVars, ehVars, shVars>>
    \/ AhItemsResolved /\ UNCHANGED <<modelVars, flatVars, treeVars, ctlVars, fcVars, rsVars, histVars, cvVars, walkVars, ciVars, cnVars, cdVars, gdVars, fdVars, ehVars, shVars>>
    \/ AhItemsFailed /\ UNCHANGED <<modelVars, flatVars, treeVars, ctlVars, fcVars, rsVars, histVars, cvVars, walkVars, ciVars, cnVars, cdVars, gdVars, fdVars, ehVars, shVars>>

SpecAsyncHighlights == InitAsyncHighlights /\ [][NextAsyncHighlights]_vars

\* The history of the searches: searches are added.
InitSearchHistory == SearchHistoryInit /\ ModelIdle /\ FlatIdle /\ TreeIdle /\ ControllerIdle /\ FindIdle /\ ResolveIdle /\ HistoryIdle /\ CallsIdle /\ WalkIdle /\ CallItemsIdle /\ CallsNavIdle /\ DirIdle /\ DocIdle /\ FileDocIdle /\ EditorHighlightsIdle /\ AsyncHighlightsIdle

NextSearchHistory ==
    \/ AddSearch /\ UNCHANGED <<modelVars, flatVars, treeVars, ctlVars, fcVars, rsVars, histVars, cvVars, walkVars, ciVars, cnVars, cdVars, gdVars, fdVars, ehVars, ahVars>>

SpecSearchHistory == InitSearchHistory /\ [][NextSearchHistory]_vars

====
